---- MODULE Spec2Model ----
(***************************************************************************)
(* Model of the retrieval / generation core of the notebook backend:       *)
(*   - the four SSE generators (services/chat.py, summary.py, slides.py,   *)
(*     podcast.py),                                                        *)
(*   - the request construction of the multi-provider chat adapter         *)
(*     (services/llm.py),                                                  *)
(*   - the embedding adapter (services/embeddings.py),                     *)
(*   - the note / source store and the endpoints that read it              *)
(*     (api/endpoints/notes.py, chat.py, sources.py).                      *)
(* Each part has its own variables and its own specification; the actions  *)
(* of one part leave the variables of the others unchanged.                *)
(***************************************************************************)
EXTENDS Integers, Sequences, FiniteSets, TLC

(***************************************************************************)
(* Bounds of the model.                                                    *)
(***************************************************************************)
\* most fragments a provider stream delivers before it ends or fails
MaxFrags == 2
\* most messages in the list handed to LLMService.chat / chat_stream
MaxMsgs == 2
\* longest text handed to generate_embedding
MaxTextLen == 2
\* most texts in a batch handed to generate_embeddings_batch
MaxBatch == 2
\* most notes and sources stored at a time (both kinds together)
MaxDocs == 2
MaxTurns == 3
MaxHistory == 12
MaxIngest == 2
MaxLines == 3
MaxRows == 3
MaxEdits == 2
MaxAdmins == 2
MaxSources == 2

(***************************************************************************)
(* Generic helpers.                                                        *)
(***************************************************************************)
None == "None"
\* an absent record-valued item (a payload key that is not set, no request)
Absent == [absent |-> TRUE]

\* all sequences over S of length at most n
SeqUpTo(S, n) == UNION {[1..k -> S] : k \in 0..n}

Last(s) == s[Len(s)]

VARIABLES
    sse_gen,      \* the generator that is running
    sse_pc,       \* "idle" | "streaming" | "done"
    sse_nosrc,    \* the generator was called with an empty source list
    sse_frags,    \* the fragments the provider stream delivers, in order
    sse_fail,     \* the provider stream raises after delivering sse_frags
    sse_pos,      \* index of the next fragment to be read from the provider
    sse_out,      \* the events the generator has yielded so far
    sse_exc       \* an exception left the generator towards its consumer

sseVars == <<sse_gen, sse_pc, sse_nosrc, sse_frags, sse_fail, sse_pos, sse_out, sse_exc>>

VARIABLES
    llm_pc,        \* "idle" | "called"
    llm_provider,  \* the resolved provider of the call
    llm_stream,    \* the call is chat_stream (TRUE) or chat (FALSE)
    llm_messages,  \* the `messages` argument
    llm_system,    \* the `system_prompt` argument
    llm_keyset,    \* the API key of the provider is configured
    llm_sent,      \* the request handed to the backend, or Absent
    llm_error      \* the exception raised before any request, or None

llmVars == <<llm_pc, llm_provider, llm_stream, llm_messages, llm_system,
             llm_keyset, llm_sent, llm_error>>

VARIABLES
    emb_pc,        \* "idle" | "returned"
    emb_op,        \* "single" (generate_embedding) | "batch" (generate_embeddings_batch)
    emb_override,  \* the `provider` argument, or None
    emb_cfg,       \* the settings read: LLM_PROVIDER and OPENAI_API_KEY
    emb_text,      \* the `text` argument of generate_embedding
    emb_texts,     \* the `texts` argument of generate_embeddings_batch
    emb_backend,   \* how the embedding backend behaves during this call
    emb_result,    \* the value returned: a vector, or a sequence of vectors
    emb_error,     \* the exception raised to the caller, or None
    emb_calls      \* the requests made to the backend, in order

embVars == <<emb_pc, emb_op, emb_override, emb_cfg, emb_text, emb_texts,
             emb_backend, emb_result, emb_error, emb_calls>>

VARIABLES
    notes,         \* the notes table: note id -> row, or Absent
    sources,       \* the sources table: source id -> row, or Absent
    has_key,       \* settings.OPENAI_API_KEY is set
    resp           \* the response of the request being answered, or NoResponse

storeVars == <<notes, sources, has_key, resp>>

VARIABLES
    adp_in,        \* the settings, arguments and backend behaviour of the calls, or Absent
    adp_out,       \* per operation: its outcome, or Absent while it has not run
    adp_requests   \* per operation: the backends its requests were sent to, in order

adpVars == <<adp_in, adp_out, adp_requests>>

VARIABLES
    gen_in,        \* the generation running: its operation and the provider's reply, or Absent
    gen_out        \* its outcome, or Absent while it runs

genVars == <<gen_in, gen_out>>

VARIABLES
    qa_in,         \* the arguments of ChatService._build_messages, or Absent
    qa_messages    \* the message list it returned

qaVars == <<qa_in, qa_messages>>

VARIABLES
    ing_cfg,       \* the settings and the state of the embedding backend
    ing_docs       \* the documents being ingested: id -> row and handler position, or Absent

ingVars == <<ing_cfg, ing_docs>>

VARIABLES
    srf_in,        \* the settings and the backend's state during the requests, or Absent
    srf_resp,      \* the response the caller of the last request received, or Absent
    srf_gate       \* per Q&A endpoint: whether it let a request past its availability test

srfVars == <<srf_in, srf_resp, srf_gate>>

VARIABLES
    ln_in,         \* the stream being read: its provider and the lines received, or Absent
    ln_out         \* the fragments chat_stream yielded and the exception that ended it

lnVars == <<ln_in, ln_out>>

VARIABLES
    rk_rows,       \* the rows a similarity query matches: id -> similarity and updated_at
    rk_query,      \* the query being answered: its endpoint and LIMIT, or Absent
    rk_result      \* the ids of the rows the database returned, in order

rkVars == <<rk_rows, rk_query, rk_result>>

VARIABLES
    ne_note,       \* one note: its title, tags, content and stored embedding, or Absent once deleted
    ne_tasks,      \* the background embedding tasks, one per scheduling request
    ne_log,        \* the number of failures the tasks have logged
    ne_last        \* the response of the last create or update request

neVars == <<ne_note, ne_tasks, ne_log, ne_last>>

VARIABLES
    adm_users,     \* the users table: id -> is_active and is_superuser, or Absent once deleted
    adm_reqs       \* per caller: the admin request that passed the superuser test and has
                   \* not run its handler yet, or Absent

admVars == <<adm_users, adm_reqs>>

VARIABLES
    sm_in,         \* the summary call running: its function, sources and summary_type, or Absent
    sm_req,        \* the call it made on llm_service, or Absent
    sm_out         \* what it returned or yielded, or Absent

smVars == <<sm_in, sm_req, sm_out>>

vars == <<sseVars, llmVars, embVars, storeVars, adpVars, genVars, qaVars, ingVars, srfVars, lnVars, rkVars, neVars, admVars, smVars>>

(***************************************************************************)
(* SSE generators.                                                         *)
(***************************************************************************)
Generators == {"answer_question_stream", "generate_summary_stream",
               "generate_slides_stream", "generate_script_stream"}

Fragments == {"a", "b"}
ErrorMessages == {"boom"}

\* f"data: {json.dumps({'content': chunk})}\n\n"
ContentEvent(f) == [type |-> "content", data |-> f]
\* f"data: {json.dumps({'error': str(e)})}\n\n"
ErrorEvent(m) == [type |-> "error", data |-> m]
\* "data: [DONE]\n\n"
DoneEvent == [type |-> "done", data |-> "[DONE]"]

\* the guard `if not sources:` at the head of the slides and podcast generators;
\* the Q&A and summary generators have no such guard and go on to the provider
HasEmptySourcesGuard(g) == g \in {"generate_slides_stream", "generate_script_stream"}

\* what the guard yields before it returns
EmptySourcesEvents == <<ErrorEvent("No sources provided"), DoneEvent>>

\* what the generator yields after the `async for` loop over the provider ended
OnComplete_NoDone(g) == <<>>
OnComplete(g) == <<DoneEvent>>

\* the `except Exception as e:` clause of each generator: the events it yields,
\* and whether it re-raises
OnError_ContentAfter(g, m) ==
    [events |-> <<ErrorEvent(m), ContentEvent(m)>>, reraise |-> FALSE]
OnError(g, m) ==
    IF g \in {"generate_slides_stream", "generate_script_stream"}
    THEN [events |-> <<ErrorEvent(m), DoneEvent>>, reraise |-> FALSE]
    ELSE [events |-> <<ErrorEvent(m)>>, reraise |-> FALSE]

SseInit ==
    /\ sse_gen = "answer_question_stream"
    /\ sse_pc = "idle"
    /\ sse_nosrc = FALSE
    /\ sse_frags = <<>>
    /\ sse_fail = FALSE
    /\ sse_pos = 1
    /\ sse_out = <<>>
    /\ sse_exc = FALSE

SseFrame == UNCHANGED <<llmVars, embVars, storeVars, adpVars, genVars, qaVars, ingVars, srfVars, lnVars, rkVars, neVars, admVars, smVars>>

\* a consumer starts iterating a generator; the provider's behaviour for this
\* call (its fragments, and whether it then raises) is chosen here
SseStart ==
    /\ sse_pc = "idle"
    /\ \E g \in Generators, nosrc \in BOOLEAN, fs \in SeqUpTo(Fragments, MaxFrags),
          fail \in BOOLEAN :
        /\ sse_gen' = g
        /\ sse_nosrc' = nosrc
        /\ sse_frags' = fs
        /\ sse_fail' = fail
        /\ sse_pos' = 1
        /\ sse_exc' = FALSE
        /\ IF nosrc /\ HasEmptySourcesGuard(g)
           THEN /\ sse_out' = EmptySourcesEvents
                /\ sse_pc' = "done"
           ELSE /\ sse_out' = <<>>
                /\ sse_pc' = "streaming"
    /\ SseFrame

\* one iteration of `async for chunk in llm_service.chat_stream(...)`
SseYieldContent ==
    /\ sse_pc = "streaming"
    /\ sse_pos <= Len(sse_frags)
    /\ sse_out' = Append(sse_out, ContentEvent(sse_frags[sse_pos]))
    /\ sse_pos' = sse_pos + 1
    /\ UNCHANGED <<sse_gen, sse_pc, sse_nosrc, sse_frags, sse_fail, sse_exc>>
    /\ SseFrame

\* the provider stream is exhausted: the statement after the loop runs
SseProviderEnds ==
    /\ sse_pc = "streaming"
    /\ sse_pos > Len(sse_frags)
    /\ ~sse_fail
    /\ sse_out' = sse_out \o OnComplete(sse_gen)
    /\ sse_pc' = "done"
    /\ UNCHANGED <<sse_gen, sse_nosrc, sse_frags, sse_fail, sse_pos, sse_exc>>
    /\ SseFrame

\* the provider stream raises: the except clause runs
SseProviderRaises ==
    /\ sse_pc = "streaming"
    /\ sse_pos > Len(sse_frags)
    /\ sse_fail
    /\ \E m \in ErrorMessages :
        /\ sse_out' = sse_out \o OnError(sse_gen, m).events
        /\ sse_exc' = OnError(sse_gen, m).reraise
    /\ sse_pc' = "done"
    /\ UNCHANGED <<sse_gen, sse_nosrc, sse_frags, sse_fail, sse_pos>>
    /\ SseFrame

\* the finished generator is dropped; the next request creates a new one
SseFinish ==
    /\ sse_pc = "done"
    /\ sse_gen' = "answer_question_stream"
    /\ sse_pc' = "idle"
    /\ sse_nosrc' = FALSE
    /\ sse_frags' = <<>>
    /\ sse_fail' = FALSE
    /\ sse_pos' = 1
    /\ sse_out' = <<>>
    /\ sse_exc' = FALSE
    /\ SseFrame

SseNext ==
    \/ SseStart
    \/ SseYieldContent
    \/ SseProviderEnds
    \/ SseProviderRaises
    \/ SseFinish

(***************************************************************************)
(* Multi-provider chat adapter: construction of the backend request.       *)
(***************************************************************************)
Providers == {"openai", "anthropic", "google", "ollama"}
Roles == {"system", "user", "assistant"}

\* Texts are atoms: no one of them is a part of another, and the code never
\* concatenates two of them, so "text c is contained in field f" is c = f.
Contents == {"c1", "c2"}
SystemPrompts == {None, "", "sp"}

Messages == [role : Roles, content : Contents]

\* Python truthiness of an optional string: `if system_prompt:`
Truthy(s) == s # None /\ s # ""

\* the loop `for msg in messages:` of _chat_anthropic and _chat_stream_anthropic:
\* the messages kept, and the value of system_prompt after the loop
RECURSIVE anthropic_messages(_, _)
anthropic_messages(messages, system_prompt) ==
    IF messages = <<>>
    THEN [msgs |-> <<>>, system_prompt |-> system_prompt]
    ELSE LET msg == Head(messages) IN
         IF msg.role = "system"
         THEN anthropic_messages(Tail(messages),
                                 IF ~Truthy(system_prompt) THEN msg.content
                                                           ELSE system_prompt)
         ELSE LET rest == anthropic_messages(Tail(messages), system_prompt) IN
              [msgs |-> <<[role |-> msg.role, content |-> msg.content]>> \o rest.msgs,
               system_prompt |-> rest.system_prompt]

\* the payload of _chat_anthropic / _chat_stream_anthropic; an absent key is None
chat_anthropic(messages, system_prompt, stream) ==
    LET conv == anthropic_messages(messages, system_prompt) IN
    [messages |-> conv.msgs,
     system   |-> IF Truthy(conv.system_prompt) THEN conv.system_prompt ELSE None,
     stream   |-> stream]

\* the loop `for msg in messages:` of _chat_google and _chat_stream_google
RECURSIVE google_contents(_, _)
google_contents(messages, system_prompt) ==
    IF messages = <<>>
    THEN [contents |-> <<>>, system_prompt |-> system_prompt]
    ELSE LET msg  == Head(messages)
             role == IF msg.role = "user" THEN "user" ELSE "model"
         IN
         IF msg.role = "system"
         THEN google_contents(Tail(messages),
                              IF ~Truthy(system_prompt) THEN msg.content
                                                        ELSE system_prompt)
         ELSE LET rest == google_contents(Tail(messages), system_prompt) IN
              [contents |-> <<[role |-> role, parts |-> <<[text |-> msg.content]>>]>>
                            \o rest.contents,
               system_prompt |-> rest.system_prompt]

\* the payload of _chat_google / _chat_stream_google; an absent key is None
chat_google(messages, system_prompt, stream) ==
    LET conv == google_contents(messages, system_prompt) IN
    [contents |-> conv.contents,
     systemInstruction |->
        IF Truthy(conv.system_prompt)
        THEN [parts |-> <<[text |-> conv.system_prompt]>>]
        ELSE Absent,
     stream |-> stream]

\* the message list of _chat_openai / _chat_stream_openai and of the two
\* ollama functions: the system prompt is an inline first message
chat_openai(messages, system_prompt, stream) ==
    [messages |-> (IF Truthy(system_prompt)
                   THEN <<[role |-> "system", content |-> system_prompt]>>
                   ELSE <<>>) \o messages,
     stream |-> stream]

\* the credential check made before a request is built: the anthropic and
\* google functions test their key, the openai client property tests its key,
\* the ollama client uses a placeholder key
MissingKeyError(provider) ==
    CASE provider = "openai"    -> "OPENAI_API_KEY is not set."
      [] provider = "anthropic" -> "ANTHROPIC_API_KEY is not set."
      [] provider = "google"    -> "GOOGLE_API_KEY is not set."
      [] OTHER                  -> None

BuildRequest(provider, messages, system_prompt, stream) ==
    CASE provider = "anthropic" -> chat_anthropic(messages, system_prompt, stream)
      [] provider = "google"    -> chat_google(messages, system_prompt, stream)
      [] OTHER                  -> chat_openai(messages, system_prompt, stream)

LlmInit ==
    /\ llm_pc = "idle"
    /\ llm_provider = "openai"
    /\ llm_stream = FALSE
    /\ llm_messages = <<>>
    /\ llm_system = None
    /\ llm_keyset = TRUE
    /\ llm_sent = Absent
    /\ llm_error = None

LlmFrame == UNCHANGED <<sseVars, embVars, storeVars, adpVars, genVars, qaVars, ingVars, srfVars, lnVars, rkVars, neVars, admVars, smVars>>

\* LLMService.chat / chat_stream up to the point where the request is sent
LlmCall ==
    /\ llm_pc = "idle"
    /\ \E p \in Providers, st \in BOOLEAN, ms \in SeqUpTo(Messages, MaxMsgs),
          sp \in SystemPrompts, key \in BOOLEAN :
        /\ llm_provider' = p
        /\ llm_stream' = st
        /\ llm_messages' = ms
        /\ llm_system' = sp
        /\ llm_keyset' = key
        /\ IF ~key /\ MissingKeyError(p) # None
           THEN /\ llm_error' = MissingKeyError(p)
                /\ llm_sent' = Absent
           ELSE /\ llm_error' = None
                /\ llm_sent' = BuildRequest(p, ms, sp, st)
    /\ llm_pc' = "called"
    /\ LlmFrame

\* the call returned (or raised) to its caller
LlmReturn ==
    /\ llm_pc = "called"
    /\ llm_pc' = "idle"
    /\ llm_provider' = "openai"
    /\ llm_stream' = FALSE
    /\ llm_messages' = <<>>
    /\ llm_system' = None
    /\ llm_keyset' = TRUE
    /\ llm_sent' = Absent
    /\ llm_error' = None
    /\ LlmFrame

LlmNext ==
    \/ LlmCall
    \/ LlmReturn

(***************************************************************************)
(* Embedding adapter.                                                      *)
(***************************************************************************)
\* A text is a sequence of characters; " " stands for any whitespace.
Chars == {" ", "a", "b"}
Texts == SeqUpTo(Chars, MaxTextLen)
BatchTexts == {<<" ">>, <<"a">>, <<"b", " ">>}

\* EmbeddingService._dimensions
dimensions == 1536
\* the character limit of clean_text
TextLimit == 32000

\* A vector all of whose entries are equal: the list [x] * d.
Vec(d, x) == [dim |-> d, fill |-> x]
VecLen(v) == v.dim

\* [0.0] * self._dimensions
ZeroVector_Short == Vec(dimensions - 1, 0)
ZeroVector == Vec(dimensions, 0)

\* str.strip()
RECURSIVE LStrip(_)
LStrip(t) == IF t # <<>> /\ Head(t) = " " THEN LStrip(Tail(t)) ELSE t
RECURSIVE RStrip(_)
RStrip(t) == IF t # <<>> /\ t[Len(t)] = " " THEN RStrip(SubSeq(t, 1, Len(t) - 1)) ELSE t
Strip(t) == RStrip(LStrip(t))

\* text.strip()[:32000]
CleanText(t) == LET st == Strip(t) IN
                IF Len(st) > TextLimit THEN SubSeq(st, 1, TextLimit) ELSE st

\* The backend is deterministic: the entries of the vector it computes for a
\* text are a one-to-one, non-zero code of that text.
RECURSIVE TextCode(_)
TextCode(t) ==
    IF t = <<>> THEN 1
    ELSE (CASE Head(t) = " " -> 1 [] Head(t) = "a" -> 2 [] OTHER -> 3) + 4 * TextCode(Tail(t))

\* the dimensions an embedding model may have (nomic-embed-text has 768)
BackendDims == {768, 1536}
BackendEmbedding(bk, t) == Vec(bk.dim, TextCode(t))

\* str.lower() on the values LLM_PROVIDER takes here
Lower(s) == IF s = "Ollama" THEN "ollama" ELSE s
ConfiguredProviders == {"openai", "anthropic", "Ollama"}
Configs == [LLM_PROVIDER : ConfiguredProviders, OPENAI_API_KEY : BOOLEAN]

\* EmbeddingService._get_provider
emb_get_provider(cfg) ==
    IF Lower(cfg.LLM_PROVIDER) = "ollama" THEN "ollama" ELSE "openai"

\* `provider = provider or self._get_provider()`
EmbResolve(override, cfg) ==
    IF override # None THEN override ELSE emb_get_provider(cfg)

\* The result of an operation: its value, the exception it raised, its requests.
Returned(v, calls) == [result |-> v, error |-> None, calls |-> calls]
Raised(e, calls) == [result |-> Absent, error |-> e, calls |-> calls]

OllamaDown == "Cannot connect to Ollama. Ensure Ollama is running with 'ollama serve'."
OpenAIKeyMissing == "OPENAI_API_KEY is not set. Please set it in your .env file or environment variables."

\* EmbeddingService._generate_embedding_openai
generate_embedding_openai(text, cfg, bk) ==
    LET clean_text == CleanText(text)
        call == [backend |-> "openai", input |-> clean_text]
    IN
    IF ~cfg.OPENAI_API_KEY THEN Raised(OpenAIKeyMissing, <<>>)
    ELSE IF bk.outcome # "ok" THEN Raised("upstream error", <<call>>)
    ELSE Returned(BackendEmbedding(bk, clean_text), <<call>>)

\* EmbeddingService._generate_embedding_ollama
generate_embedding_ollama(text, bk) ==
    LET clean_text == CleanText(text)
        call == [backend |-> "ollama", input |-> clean_text]
    IN
    IF bk.outcome = "connect_error" THEN Raised(OllamaDown, <<call>>)
    ELSE IF bk.outcome # "ok" THEN Raised("upstream error", <<call>>)
    ELSE IF bk.shape = "embeddings"
         THEN Returned(BackendEmbedding(bk, clean_text), <<call>>)
    ELSE IF bk.shape = "embedding"
         THEN Returned(BackendEmbedding(bk, clean_text), <<call>>)
    ELSE Returned(ZeroVector, <<call>>)

\* EmbeddingService.generate_embedding
generate_embedding_NoEmptyCheck(text, override, cfg, bk) ==
    IF EmbResolve(override, cfg) = "ollama"
    THEN generate_embedding_ollama(text, bk)
    ELSE generate_embedding_openai(text, cfg, bk)
generate_embedding(text, override, cfg, bk) ==
    LET provider == EmbResolve(override, cfg) IN
    IF Strip(text) = <<>> THEN Returned(ZeroVector, <<>>)
    ELSE IF provider = "ollama" THEN generate_embedding_ollama(text, bk)
    ELSE generate_embedding_openai(text, cfg, bk)

\* clean_texts = [t.strip()[:32000] if t.strip() else "" for t in texts]
clean_texts(texts) == [i \in 1..Len(texts) |-> CleanText(texts[i])]
\* processed_texts = [t if t else " " for t in clean_texts]
processed_texts(texts) ==
    [i \in 1..Len(texts) |-> IF clean_texts(texts)[i] # <<>> THEN clean_texts(texts)[i]
                                                           ELSE <<" ">>]

\* the vectors of a batch response in the order the backend lists them
BackendBatch(bk, inputs) ==
    [k \in 1..Len(inputs) |-> [index |-> bk.perm[k] - 1,
                               embedding |-> BackendEmbedding(bk, inputs[bk.perm[k]])]]

\* sorted(response.data, key=lambda x: x.index)
RECURSIVE SortByIndex(_)
SortByIndex(data) ==
    IF data = <<>> THEN <<>>
    ELSE LET m == CHOOSE k \in 1..Len(data) :
                      /\ \A j \in 1..Len(data) : data[k].index <= data[j].index
                      /\ \A j \in 1..(k - 1) : data[j].index # data[k].index
             rest == [j \in 1..(Len(data) - 1) |-> IF j < m THEN data[j] ELSE data[j + 1]]
         IN <<data[m]>> \o SortByIndex(rest)

\* for i, text in enumerate(clean_texts): if not text: result[i] = [0.0] * self._dimensions
ZeroEmptyPositions(result, clean) ==
    [i \in 1..Len(result) |-> IF clean[i] = <<>> THEN ZeroVector ELSE result[i]]

\* EmbeddingService._generate_embeddings_batch_openai
generate_embeddings_batch_openai_Unsorted(texts, cfg, bk) ==
    LET processed == processed_texts(texts)
        call == [backend |-> "openai", input |-> processed]
        data == BackendBatch(bk, processed)
    IN
    IF ~cfg.OPENAI_API_KEY THEN Raised(OpenAIKeyMissing, <<>>)
    ELSE IF bk.outcome # "ok" THEN Raised("upstream error", <<call>>)
    ELSE Returned(ZeroEmptyPositions([i \in 1..Len(data) |-> data[i].embedding],
                                     clean_texts(texts)), <<call>>)
generate_embeddings_batch_openai(texts, cfg, bk) ==
    LET processed == processed_texts(texts)
        call == [backend |-> "openai", input |-> processed]
        embeddings == SortByIndex(BackendBatch(bk, processed))
        result == [i \in 1..Len(embeddings) |-> embeddings[i].embedding]
    IN
    IF ~cfg.OPENAI_API_KEY THEN Raised(OpenAIKeyMissing, <<>>)
    ELSE IF bk.outcome # "ok" THEN Raised("upstream error", <<call>>)
    ELSE Returned(ZeroEmptyPositions(result, clean_texts(texts)), <<call>>)

\* the sequential fallback: `for text in texts: emb = await
\* self._generate_embedding_ollama(text); result.append(emb)`
RECURSIVE OllamaSequential(_, _)
OllamaSequential(texts, bk) ==
    IF texts = <<>> THEN Returned(<<>>, <<>>)
    ELSE LET first == generate_embedding_ollama(Head(texts), bk) IN
         IF first.error # None THEN first
         ELSE LET rest == OllamaSequential(Tail(texts), bk) IN
              IF rest.error # None THEN Raised(rest.error, first.calls \o rest.calls)
              ELSE Returned(<<first.result>> \o rest.result, first.calls \o rest.calls)

\* EmbeddingService._generate_embeddings_batch_ollama
generate_embeddings_batch_ollama_EmptyOnly(texts, bk) ==
    LET processed == processed_texts(texts)
        call == [backend |-> "ollama", input |-> processed]
        listed == BackendBatch(bk, processed)
        embeddings == IF bk.shape = "embeddings"
                      THEN [k \in 1..bk.count |-> listed[k].embedding]
                      ELSE <<>>
    IN
    IF bk.outcome = "connect_error" THEN Raised(OllamaDown, <<call>>)
    ELSE IF bk.outcome # "ok" THEN Raised("upstream error", <<call>>)
    ELSE IF embeddings = <<>>
         THEN LET seq == OllamaSequential(texts, bk) IN
              [seq EXCEPT !.calls = <<call>> \o seq.calls]
    ELSE Returned(ZeroEmptyPositions(embeddings, clean_texts(texts)), <<call>>)
generate_embeddings_batch_ollama(texts, bk) ==
    LET processed == processed_texts(texts)
        call == [backend |-> "ollama", input |-> processed]
        listed == BackendBatch(bk, processed)
        \* data.get("embeddings", [])
        embeddings == IF bk.shape = "embeddings"
                      THEN [k \in 1..bk.count |-> listed[k].embedding]
                      ELSE <<>>
    IN
    IF bk.outcome = "connect_error" THEN Raised(OllamaDown, <<call>>)
    ELSE IF bk.outcome # "ok" THEN Raised("upstream error", <<call>>)
    ELSE IF embeddings = <<>> \/ Len(embeddings) # Len(texts)
         THEN LET seq == OllamaSequential(texts, bk) IN
              [seq EXCEPT !.calls = <<call>> \o seq.calls]
    ELSE Returned(ZeroEmptyPositions(embeddings, clean_texts(texts)), <<call>>)

\* EmbeddingService.generate_embeddings_batch
generate_embeddings_batch(texts, override, cfg, bk) ==
    LET provider == EmbResolve(override, cfg) IN
    IF texts = <<>> THEN Returned(<<>>, <<>>)
    ELSE IF provider = "ollama" THEN generate_embeddings_batch_ollama(texts, bk)
    ELSE generate_embeddings_batch_openai(texts, cfg, bk)

EmbInit ==
    /\ emb_pc = "idle"
    /\ emb_op = "single"
    /\ emb_override = None
    /\ emb_cfg = [LLM_PROVIDER |-> "openai", OPENAI_API_KEY |-> TRUE]
    /\ emb_text = <<>>
    /\ emb_texts = <<>>
    /\ emb_backend = [outcome |-> "ok", dim |-> dimensions, shape |-> "embeddings",
                      perm |-> <<>>, count |-> 0]
    /\ emb_result = Absent
    /\ emb_error = None
    /\ emb_calls = <<>>

EmbFrame == UNCHANGED <<sseVars, llmVars, storeVars, adpVars, genVars, qaVars, ingVars, srfVars, lnVars, rkVars, neVars, admVars, smVars>>

\* the behaviours of the backend during one operation on n texts: it answers
\* (with vectors of some dimension, in some JSON shape, the batch results in
\* some order and number), refuses the connection, or answers with an error
Perms(n) == {f \in [1..n -> 1..n] : \A i, j \in 1..n : f[i] = f[j] => i = j}
BackendBehaviours(n) ==
    [outcome : {"ok"}, dim : BackendDims, shape : {"embeddings", "embedding", "neither"},
     perm : Perms(n), count : {0, n - 1, n} \cap (0..n)]
    \cup
    [outcome : {"connect_error", "http_error"}, dim : {dimensions}, shape : {"embeddings"},
     perm : {[i \in 1..n |-> i]}, count : {n}]

\* a caller awaits generate_embedding(text, provider)
EmbGenerate ==
    /\ emb_pc = "idle"
    /\ \E text \in Texts, override \in {None, "openai", "ollama"}, cfg \in Configs,
          bk \in BackendBehaviours(1) :
        LET r == generate_embedding(text, override, cfg, bk) IN
        /\ emb_op' = "single"
        /\ emb_text' = text
        /\ emb_texts' = <<>>
        /\ emb_override' = override
        /\ emb_cfg' = cfg
        /\ emb_backend' = bk
        /\ emb_result' = r.result
        /\ emb_error' = r.error
        /\ emb_calls' = r.calls
    /\ emb_pc' = "returned"
    /\ EmbFrame

\* a caller awaits generate_embeddings_batch(texts, provider)
EmbGenerateBatch ==
    /\ emb_pc = "idle"
    /\ \E texts \in SeqUpTo(BatchTexts, MaxBatch), override \in {None, "openai", "ollama"},
          cfg \in Configs :
        \E bk \in BackendBehaviours(Len(texts)) :
        LET r == generate_embeddings_batch(texts, override, cfg, bk) IN
        /\ emb_op' = "batch"
        /\ emb_text' = <<>>
        /\ emb_texts' = texts
        /\ emb_override' = override
        /\ emb_cfg' = cfg
        /\ emb_backend' = bk
        /\ emb_result' = r.result
        /\ emb_error' = r.error
        /\ emb_calls' = r.calls
    /\ emb_pc' = "returned"
    /\ EmbFrame

\* the caller takes the result; the service keeps no state between calls
EmbDone ==
    /\ emb_pc = "returned"
    /\ emb_pc' = "idle"
    /\ emb_op' = "single"
    /\ emb_override' = None
    /\ emb_cfg' = [LLM_PROVIDER |-> "openai", OPENAI_API_KEY |-> TRUE]
    /\ emb_text' = <<>>
    /\ emb_texts' = <<>>
    /\ emb_backend' = [outcome |-> "ok", dim |-> dimensions, shape |-> "embeddings",
                      perm |-> <<>>, count |-> 0]
    /\ emb_result' = Absent
    /\ emb_error' = None
    /\ emb_calls' = <<>>
    /\ EmbFrame

EmbNext ==
    \/ EmbGenerate
    \/ EmbGenerateBatch
    \/ EmbDone

(***************************************************************************)
(* The note and source store and the endpoints over it.                    *)
(***************************************************************************)
Users == {"A", "B"}
NoteIds == 1..MaxDocs
SourceIds == 1..MaxDocs

\* The text of a document (its title, tags and content) is one atom, written
\* by one user only.
TextsOf(u) == IF u = "A" THEN {"A1", "A2"} ELSE {"B1"}
AllTexts == UNION {TextsOf(u) : u \in Users}
Author(t) == CHOOSE u \in Users : t \in TextsOf(u)

Queries == {"q1", "q2"}

\* 1 - (embedding <=> query_embedding): the cosine similarity of the stored
\* embedding of a text and the embedding of a query, in units of 0.00001.
Similarity(q, t) ==
    CASE q = "q1" /\ t = "A1" -> 90000
      [] q = "q1" /\ t = "A2" -> 30004
      [] q = "q1" /\ t = "B1" -> 95000
      [] q = "q2" /\ t = "A1" -> 50000
      [] q = "q2" /\ t = "A2" -> 50000
      [] q = "q2" /\ t = "B1" -> 20000
\* the similarity of the stored embeddings of two texts
TextSimilarity(t1, t2) ==
    IF t1 = t2 THEN 100000
    ELSE IF Author(t1) = Author(t2) THEN 60000 ELSE 70000

\* round(row.similarity, 4), in units of 0.0001
Round4(x) == (x + 5) \div 10

\* a row of the notes table
NoteRow(u, t) ==
    [owner |-> u, text |-> t, is_archived |-> FALSE, embedding |-> None, task |-> FALSE]

\* a row of the sources table
SourceRow(u, t) == [owner |-> u, text |-> t]

NoResponse == [op |-> "none"]

LiveDocs ==
    Cardinality({i \in NoteIds : notes[i] # Absent})
    + Cardinality({i \in SourceIds : sources[i] # Absent})

\* a fresh primary key
FreshNoteId == CHOOSE i \in NoteIds : notes[i] = Absent /\ \A j \in 1..(i - 1) : notes[j] # Absent
FreshSourceId == CHOOSE i \in SourceIds : sources[i] = Absent /\ \A j \in 1..(i - 1) : sources[j] # Absent

\* select(Note).where(Note.id == note_id, Note.owner_id == current_user.id)
SelectOwnNote_AnyOwner(u, id) == IF notes[id] # Absent THEN {id} ELSE {}
SelectOwnNote(u, id) ==
    IF notes[id] # Absent /\ notes[id].owner = u THEN {id} ELSE {}

\* select(Source).where(Source.id.in_(ids), Source.owner_id == current_user.id)
SelectOwnSources(u, ids) ==
    {i \in ids : sources[i] # Absent /\ sources[i].owner = u}

\* the similarity column of the notes table for a query text; NULL for a row
\* without embedding
QuerySimilarity(q) ==
    [i \in NoteIds |->
        IF notes[i] = Absent \/ notes[i].embedding = None THEN None
        ELSE Similarity(q, notes[i].embedding)]

\* the similarity column of the notes table for the embedding of note id
NoteSimilarity(id) ==
    [i \in NoteIds |->
        IF notes[i] = Absent \/ notes[i].embedding = None \/ notes[id].embedding = None
        THEN None
        ELSE TextSimilarity(notes[id].embedding, notes[i].embedding)]

\* the WHERE clause of the similarity queries: the ids of the matching rows;
\* sim[i] is the similarity column of row i
MatchingNotes_NoThreshold(u, sim, threshold, exclude) ==
    {i \in NoteIds :
        /\ notes[i] # Absent
        /\ notes[i].owner = u
        /\ i # exclude
        /\ notes[i].embedding # None
        /\ notes[i].is_archived = FALSE}
MatchingNotes(u, sim, threshold, exclude) ==
    {i \in NoteIds :
        /\ notes[i] # Absent
        /\ notes[i].owner = u
        /\ i # exclude
        /\ notes[i].embedding # None
        /\ notes[i].is_archived = FALSE
        /\ sim[i] >= threshold}

\* ORDER BY similarity DESC LIMIT :limit - every result the database may give
\* (rows of equal similarity come in any order)
OrderedLimited(ids, sim, limit) ==
    LET n == Cardinality(ids)
        k == IF limit < n THEN limit ELSE n
        orders == {f \in [1..n -> ids] :
                      /\ \A i, j \in 1..n : f[i] = f[j] => i = j
                      /\ \A i, j \in 1..n : i < j => sim[f[i]] >= sim[f[j]]}
    IN {SubSeq(f, 1, k) : f \in orders}

\* the rows a similarity query returns, as the handler reads them
ResultRow(i, s) ==
    [id |-> i, owner |-> notes[i].owner, text |-> notes[i].text,
     is_archived |-> notes[i].is_archived, embedding |-> notes[i].embedding,
     similarity |-> s]

StoreInit ==
    /\ notes = [i \in NoteIds |-> Absent]
    /\ sources = [i \in SourceIds |-> Absent]
    /\ has_key \in BOOLEAN
    /\ resp = NoResponse

StoreFrame == UNCHANGED <<sseVars, llmVars, embVars, adpVars, genVars, qaVars, ingVars, srfVars, lnVars, rkVars, neVars, admVars, smVars>>

\* a handler runs while no other response is being written
Ready == resp = NoResponse

\* notes.py create_note
create_note ==
    /\ Ready
    /\ LiveDocs < MaxDocs
    /\ \E u \in Users : \E t \in TextsOf(u) :
        /\ notes' = [notes EXCEPT ![FreshNoteId] = [NoteRow(u, t) EXCEPT !.task = has_key]]
        /\ resp' = [op |-> "create_note", user |-> u, status |-> 201, texts |-> {t}]
    /\ UNCHANGED <<sources, has_key>>
    /\ StoreFrame

\* notes.py generate_and_store_embedding (the background task of a note)
generate_and_store_embedding ==
    /\ Ready
    /\ \E i \in NoteIds, embed_ok \in BOOLEAN :
        /\ notes[i] # Absent
        /\ notes[i].task
        /\ notes' = [notes EXCEPT ![i] =
                        IF embed_ok
                        THEN [@ EXCEPT !.embedding = notes[i].text, !.task = FALSE]
                        ELSE [@ EXCEPT !.task = FALSE]]
    /\ UNCHANGED <<sources, has_key, resp>>
    /\ StoreFrame

\* notes.py update_note with a new title / content / tags
update_note ==
    /\ Ready
    /\ \E u \in Users, i \in NoteIds : \E t \in TextsOf(u) :
        IF SelectOwnNote(u, i) = {}
        THEN /\ resp' = [op |-> "update_note", user |-> u, status |-> 404, texts |-> {},
                         foreign |-> (notes[i] # Absent)]
             /\ UNCHANGED notes
        ELSE /\ notes' = [notes EXCEPT ![i] = [@ EXCEPT !.text = t, !.task = (@ \/ has_key)]]
             /\ resp' = [op |-> "update_note", user |-> u, status |-> 200, texts |-> {t}, foreign |-> FALSE]
    /\ UNCHANGED <<sources, has_key>>
    /\ StoreFrame

\* notes.py delete_note
delete_note ==
    /\ Ready
    /\ \E u \in Users, i \in NoteIds :
        IF SelectOwnNote(u, i) = {}
        THEN /\ resp' = [op |-> "delete_note", user |-> u, status |-> 404, texts |-> {},
                         foreign |-> (notes[i] # Absent)]
             /\ UNCHANGED notes
        ELSE /\ notes' = [notes EXCEPT ![i] = Absent]
             /\ resp' = [op |-> "delete_note", user |-> u, status |-> 204, texts |-> {}, foreign |-> FALSE]
    /\ UNCHANGED <<sources, has_key>>
    /\ StoreFrame

\* notes.py archive_note and unarchive_note
archive_note ==
    /\ Ready
    /\ \E u \in Users, i \in NoteIds, archived \in BOOLEAN :
        IF SelectOwnNote(u, i) = {}
        THEN /\ resp' = [op |-> "archive_note", user |-> u, status |-> 404, texts |-> {},
                         foreign |-> (notes[i] # Absent)]
             /\ UNCHANGED notes
        ELSE /\ notes' = [notes EXCEPT ![i] = [@ EXCEPT !.is_archived = archived]]
             /\ resp' = [op |-> "archive_note", user |-> u, status |-> 200,
                         texts |-> {notes[i].text}, foreign |-> FALSE]
    /\ UNCHANGED <<sources, has_key>>
    /\ StoreFrame

\* notes.py get_note
get_note ==
    /\ Ready
    /\ \E u \in Users, i \in NoteIds :
        resp' = IF SelectOwnNote(u, i) = {}
                THEN [op |-> "get_note", user |-> u, status |-> 404, texts |-> {},
                         foreign |-> (notes[i] # Absent)]
                ELSE [op |-> "get_note", user |-> u, status |-> 200, texts |-> {notes[i].text}, foreign |-> FALSE]
    /\ UNCHANGED <<notes, sources, has_key>>
    /\ StoreFrame

\* the request parameters the model draws
Limits == {1, 2}
Thresholds == {30000, 50000}

\* the `results` / `similar_notes` list of a search response
SearchResults(rows) ==
    [k \in 1..Len(rows) |-> [id |-> rows[k].id, text |-> rows[k].text,
                             similarity |-> Round4(rows[k].similarity)]]

RowTexts(rows) == {rows[k].text : k \in 1..Len(rows)}

\* notes.py semantic_search
semantic_search ==
    /\ Ready
    /\ \E u \in Users, q \in Queries, limit \in Limits, threshold \in Thresholds,
          embed_ok \in BOOLEAN :
        LET sim == QuerySimilarity(q)
            base == [op |-> "semantic_search", user |-> u, q |-> q,
                     threshold |-> threshold, limit |-> limit]
        IN
        IF ~has_key
        THEN resp' = base @@ [status |-> 503, rows |-> <<>>, texts |-> {}]
        ELSE IF ~embed_ok
        THEN resp' = base @@ [status |-> 500, rows |-> <<>>, texts |-> {}]
        ELSE \E ids \in OrderedLimited(MatchingNotes(u, sim, threshold, 0), sim, limit) :
                LET rows == [k \in 1..Len(ids) |-> ResultRow(ids[k], sim[ids[k]])] IN
                resp' = base @@ [status |-> 200, rows |-> rows,
                                 results |-> SearchResults(rows), texts |-> RowTexts(rows)]
    /\ UNCHANGED <<notes, sources, has_key>>
    /\ StoreFrame

\* notes.py get_similar_notes
get_similar_notes ==
    /\ Ready
    /\ \E u \in Users, id \in NoteIds, limit \in Limits, threshold \in Thresholds :
        LET sim == NoteSimilarity(id)
            base == [op |-> "get_similar_notes", user |-> u, q |-> id,
                     threshold |-> threshold, limit |-> limit]
        IN
        IF SelectOwnNote(u, id) = {}
        THEN resp' = base @@ [status |-> 404, rows |-> <<>>, texts |-> {}]
        ELSE IF notes[id].embedding = None
        THEN resp' = base @@ [status |-> 400, rows |-> <<>>, texts |-> {}]
        ELSE \E ids \in OrderedLimited(MatchingNotes(u, sim, threshold, id), sim, limit) :
                LET rows == [k \in 1..Len(ids) |-> ResultRow(ids[k], sim[ids[k]])] IN
                resp' = base @@ [status |-> 200, rows |-> rows,
                                 results |-> SearchResults(rows), texts |-> RowTexts(rows)]
    /\ UNCHANGED <<notes, sources, has_key>>
    /\ StoreFrame

\* the threshold and limit of the Q&A context query (0.3 and 5)
ChatThreshold == 30000
ChatLimit == 5

\* endpoints/chat.py: context_notes built from the rows
ContextNotes(rows) ==
    [k \in 1..Len(rows) |-> [id |-> rows[k].id, title |-> rows[k].text,
                             content |-> rows[k].text,
                             similarity |-> Round4(rows[k].similarity)]]

\* ChatService._build_context: the notes whose title and content are put in
\* the prompt, in order
build_context(context_notes) ==
    [k \in 1..Len(context_notes) |-> context_notes[k].content]

\* endpoints/chat.py chat: the `sources` of ChatResponse
ChatSources(context_notes) ==
    [k \in 1..Len(context_notes) |-> [id |-> context_notes[k].id,
                                      title |-> context_notes[k].title,
                                      similarity |-> context_notes[k].similarity]]

\* endpoints/chat.py chat
chat ==
    /\ Ready
    /\ \E u \in Users, q \in Queries, available \in BOOLEAN, embed_ok \in BOOLEAN,
          llm_ok \in BOOLEAN :
        LET sim == QuerySimilarity(q)
            base == [op |-> "chat", user |-> u, q |-> q,
                     threshold |-> ChatThreshold, limit |-> ChatLimit]
            none == [rows |-> <<>>, texts |-> {}, context |-> <<>>, prompt |-> <<>>,
                     has_sources |-> FALSE, sources |-> <<>>]
        IN
        IF ~available THEN resp' = base @@ [status |-> 503] @@ none
        ELSE IF ~embed_ok THEN resp' = base @@ [status |-> 500] @@ none
        ELSE \E ids \in OrderedLimited(MatchingNotes(u, sim, ChatThreshold, 0), sim, ChatLimit) :
                LET rows == [k \in 1..Len(ids) |-> ResultRow(ids[k], sim[ids[k]])]
                    context_notes == ContextNotes(rows)
                IN
                IF ~llm_ok
                THEN resp' = base @@ [status |-> 500, rows |-> rows, texts |-> {},
                                      context |-> context_notes,
                                      prompt |-> build_context(context_notes),
                                      has_sources |-> FALSE, sources |-> <<>>]
                ELSE resp' = base @@ [status |-> 200, rows |-> rows,
                                      texts |-> RowTexts(rows),
                                      context |-> context_notes,
                                      prompt |-> build_context(context_notes),
                                      has_sources |-> TRUE,
                                      sources |-> ChatSources(context_notes)]
    /\ UNCHANGED <<notes, sources, has_key>>
    /\ StoreFrame

\* endpoints/chat.py chat_stream: the response is the event stream of
\* answer_question_stream alone
chat_stream ==
    /\ Ready
    /\ \E u \in Users, q \in Queries, embed_ok \in BOOLEAN :
        LET sim == QuerySimilarity(q)
            base == [op |-> "chat_stream", user |-> u, q |-> q,
                     threshold |-> ChatThreshold, limit |-> ChatLimit]
            none == [rows |-> <<>>, texts |-> {}, context |-> <<>>, prompt |-> <<>>,
                     has_sources |-> FALSE, sources |-> <<>>]
        IN
        IF ~has_key THEN resp' = base @@ [status |-> 503] @@ none
        ELSE IF ~embed_ok THEN resp' = base @@ [status |-> 500] @@ none
        ELSE \E ids \in OrderedLimited(MatchingNotes(u, sim, ChatThreshold, 0), sim, ChatLimit) :
                LET rows == [k \in 1..Len(ids) |-> ResultRow(ids[k], sim[ids[k]])]
                    context_notes == ContextNotes(rows)
                IN
                resp' = base @@ [status |-> 200, rows |-> rows, texts |-> RowTexts(rows),
                                 context |-> context_notes,
                                 prompt |-> build_context(context_notes),
                                 has_sources |-> FALSE, sources |-> <<>>]
    /\ UNCHANGED <<notes, sources, has_key>>
    /\ StoreFrame

\* sources.py create_text_source
create_text_source ==
    /\ Ready
    /\ LiveDocs < MaxDocs
    /\ \E u \in Users : \E t \in TextsOf(u) :
        /\ sources' = [sources EXCEPT ![FreshSourceId] = SourceRow(u, t)]
        /\ resp' = [op |-> "create_text_source", user |-> u, status |-> 201, texts |-> {t}]
    /\ UNCHANGED <<notes, has_key>>
    /\ StoreFrame

\* sources.py get_source
get_source ==
    /\ Ready
    /\ \E u \in Users, i \in SourceIds :
        resp' = IF SelectOwnSources(u, {i}) = {}
                THEN [op |-> "get_source", user |-> u, status |-> 404, texts |-> {},
                      foreign |-> (sources[i] # Absent)]
                ELSE [op |-> "get_source", user |-> u, status |-> 200,
                      texts |-> {sources[i].text}, foreign |-> FALSE]
    /\ UNCHANGED <<notes, sources, has_key>>
    /\ StoreFrame

\* sources.py update_source with a new title / content
update_source ==
    /\ Ready
    /\ \E u \in Users, i \in SourceIds : \E t \in TextsOf(u) :
        IF SelectOwnSources(u, {i}) = {}
        THEN /\ resp' = [op |-> "update_source", user |-> u, status |-> 404, texts |-> {},
                         foreign |-> (sources[i] # Absent)]
             /\ UNCHANGED sources
        ELSE /\ sources' = [sources EXCEPT ![i] = [@ EXCEPT !.text = t]]
             /\ resp' = [op |-> "update_source", user |-> u, status |-> 200, texts |-> {t},
                         foreign |-> FALSE]
    /\ UNCHANGED <<notes, has_key>>
    /\ StoreFrame

\* sources.py delete_source
delete_source ==
    /\ Ready
    /\ \E u \in Users, i \in SourceIds :
        IF SelectOwnSources(u, {i}) = {}
        THEN /\ resp' = [op |-> "delete_source", user |-> u, status |-> 404, texts |-> {},
                         foreign |-> (sources[i] # Absent)]
             /\ UNCHANGED sources
        ELSE /\ sources' = [sources EXCEPT ![i] = Absent]
             /\ resp' = [op |-> "delete_source", user |-> u, status |-> 204, texts |-> {},
                         foreign |-> FALSE]
    /\ UNCHANGED <<notes, has_key>>
    /\ StoreFrame

\* the endpoints that generate from a list of source ids
GenerationOps == {"generate_summary", "generate_summary_stream", "generate_audio_overview",
                  "generate_slides", "generate_slides_stream", "generate_podcast"}

\* the source_ids of a generation request: one id, or all of them
SourceIdLists == {{i} : i \in SourceIds} \cup {SourceIds}

\* sources.py generate_summary, generate_summary_stream, generate_audio_overview,
\* generate_slides, generate_slides_stream, generate_podcast: the sources are
\* fetched, and their titles and contents handed to the generating service
generate_from_sources ==
    /\ Ready
    /\ \E op \in GenerationOps, u \in Users, ids \in SourceIdLists :
        LET found == SelectOwnSources(u, ids) IN
        resp' = IF found = {}
                THEN [op |-> op, user |-> u, status |-> 404, ids |-> ids, texts |-> {}]
                ELSE [op |-> op, user |-> u, status |-> 200, ids |-> ids,
                      texts |-> {sources[i].text : i \in found}]
    /\ UNCHANGED <<notes, sources, has_key>>
    /\ StoreFrame

\* the response has been sent
Respond ==
    /\ resp # NoResponse
    /\ resp' = NoResponse
    /\ UNCHANGED <<notes, sources, has_key>>
    /\ StoreFrame

StoreNext ==
    \/ create_note
    \/ generate_and_store_embedding
    \/ update_note
    \/ delete_note
    \/ archive_note
    \/ get_note
    \/ semantic_search
    \/ get_similar_notes
    \/ chat
    \/ chat_stream
    \/ create_text_source
    \/ get_source
    \/ update_source
    \/ delete_source
    \/ generate_from_sources
    \/ Respond

(***************************************************************************)
(* Multi-provider chat adapter: provider resolution, dispatch, and reading *)
(* the backend's reply (services/llm.py, endpoints/chat.py).               *)
(***************************************************************************)
\* the values settings.LLM_PROVIDER and the `provider` argument may hold
ConfiguredNames == {"openai", "anthropic", "google", "Ollama", "bogus"}
OverrideNames == {None, "anthropic", "ollama", "bogus"}

\* the providers whose API key is configured
KeySets == SUBSET {"openai", "anthropic", "google"}

\* settings.OLLAMA_BASE_URL
OLLAMA_BASE_URL == "http://localhost:11434"

\* The text of a reply is a sequence of characters; the backend delivers it
\* whole to a non-streaming request and in chunks to a streaming one.
ReplyChunks == {<<>>, <<"a">>, <<"b">>}

RECURSIVE Concat(_)
Concat(chunks) == IF chunks = <<>> THEN <<>> ELSE Head(chunks) \o Concat(Tail(chunks))

\* str(e) of the exceptions the backend client raises
RefusedMessages == {"Connection refused", "Connection error."}
UpstreamMessages == {"Error code: 404 - model not found",
                     "Error code: 500 - runner disconnected"}

\* `"Connection refused" in error_msg or "connect" in error_msg.lower()`
MentionsConnect(error_msg) ==
    error_msg \in {"Connection refused", "Connection error.",
                   "Error code: 500 - runner disconnected"}

\* How the backend behaves during the calls: it answers with a reply text, or
\* the connection is refused, or it answers with an error status.  `noise`:
\* the stream also carries events without text (keep-alives, other event
\* types, lines that are not JSON).
BackendReplies ==
    [outcome : {"ok"}, chunks : SeqUpTo(ReplyChunks, MaxFrags), noise : BOOLEAN,
     message : {None}]
    \cup [outcome : {"refused"}, chunks : {<<>>}, noise : {FALSE}, message : RefusedMessages]
    \cup [outcome : {"status"}, chunks : {<<>>}, noise : {FALSE}, message : UpstreamMessages]

AdpInputs ==
    [LLM_PROVIDER : ConfiguredNames, override : OverrideNames, keys : KeySets,
     backend : BackendReplies]

\* the outcome of an operation: the value returned (for chat_stream the
\* fragments yielded), the provider function that was called, and the
\* exception raised, if any
Outcome(value, via, etype, emsg) ==
    [value |-> value, via |-> via, etype |-> etype, emsg |-> emsg]

\* LLMService._get_provider
llm_get_provider(LLM_PROVIDER) ==
    LET provider == Lower(LLM_PROVIDER) IN
    IF provider \notin Providers THEN "openai" ELSE provider

\* `provider = provider or self._get_provider()`
LlmResolve(override, LLM_PROVIDER) ==
    IF Truthy(override) THEN override ELSE llm_get_provider(LLM_PROVIDER)

\* the events of the backend's stream: one per chunk of the reply, and, with
\* noise, events without text before and between them
StreamEvents(backend) ==
    LET deltas == [k \in 1..Len(backend.chunks) |-> [kind |-> "delta", text |-> backend.chunks[k]]]
        other  == [kind |-> "other", text |-> <<>>]
    IN IF backend.noise
       THEN <<other>> \o deltas \o <<[kind |-> "malformed", text |-> <<>>]>>
       ELSE deltas

\* `async for chunk in stream: if chunk.choices and chunk.choices[0].delta.content:
\*  yield ...` of the openai and ollama stream functions
openai_fragments(events) ==
    LET keep(e) == e.kind = "delta" /\ e.text # <<>>
        kept == SelectSeq(events, keep)
    IN [k \in 1..Len(kept) |-> kept[k].text]

sse_fragments_StopAtUnparsed(events) ==
    LET n == Len(events)
        bad == {k \in 1..n : events[k].kind # "delta"}
        stop == IF bad = {} THEN n + 1 ELSE CHOOSE k \in bad : \A j \in bad : k <= j
    IN [k \in 1..(stop - 1) |-> events[k].text]

\* the line loop of _chat_stream_anthropic and _chat_stream_google: events
\* that do not parse, or are not text deltas, are skipped
sse_fragments(events) ==
    LET keep(e) == e.kind = "delta"
        kept == SelectSeq(events, keep)
    IN [k \in 1..Len(kept) |-> kept[k].text]

\* the message of the ConnectionError of the two ollama functions
OllamaUnavailable ==
    "Cannot connect to Ollama at http://localhost:11434. Ensure Ollama is running with 'ollama serve'."

\* the exception class of the backend client for a failure
UpstreamType(backend) ==
    IF backend.outcome = "refused" THEN "APIConnectionError" ELSE "APIStatusError"

\* the credential test at the head of a provider function, or None
KeyError(provider, keys) ==
    IF provider \in {"openai", "anthropic", "google"} /\ provider \notin keys
    THEN MissingKeyError(provider)
    ELSE None

\* _chat_openai, _chat_anthropic, _chat_google, _chat_ollama and their
\* streaming counterparts, from the credential test to the value returned
provider_chat(provider, in, stream) ==
    LET backend == in.backend
        events == StreamEvents(backend)
        value == IF ~stream THEN Concat(backend.chunks)
                 ELSE IF provider \in {"openai", "ollama"} THEN openai_fragments(events)
                 ELSE sse_fragments(events)
    IN
    IF KeyError(provider, in.keys) # None
    THEN Outcome(<<>>, provider, "ValueError", KeyError(provider, in.keys))
    ELSE IF backend.outcome = "ok"
    THEN Outcome(value, provider, None, None)
    ELSE IF provider = "ollama" /\ MentionsConnect(backend.message)
    THEN Outcome(<<>>, provider, "ConnectionError", OllamaUnavailable)
    ELSE Outcome(<<>>, provider, UpstreamType(backend), backend.message)

\* LLMService.chat (stream = FALSE) and LLMService.chat_stream (stream = TRUE)
llm_chat(in, stream) ==
    LET provider == LlmResolve(in.override, in.LLM_PROVIDER) IN
    IF provider \in Providers
    THEN provider_chat(provider, in, stream)
    ELSE Outcome(<<>>, None, "ValueError", "Unknown provider")

\* endpoints/chat.py check_llm_available: (available, message)
check_llm_available(in) ==
    LET provider == Lower(in.LLM_PROVIDER) IN
    CASE provider = "openai" ->
            IF "openai" \notin in.keys
            THEN Outcome(FALSE, provider, None, "OpenAI API key not configured")
            ELSE Outcome(TRUE, provider, None, "")
      [] provider = "anthropic" ->
            IF "anthropic" \notin in.keys
            THEN Outcome(FALSE, provider, None, "Anthropic API key not configured")
            ELSE Outcome(TRUE, provider, None, "")
      [] provider = "google" ->
            IF "google" \notin in.keys
            THEN Outcome(FALSE, provider, None, "Google API key not configured")
            ELSE Outcome(TRUE, provider, None, "")
      [] provider = "ollama" ->
            IF in.backend.outcome = "refused"
            THEN Outcome(FALSE, provider, None, "Ollama not available")
            ELSE Outcome(TRUE, provider, None, "")
      [] OTHER -> Outcome(FALSE, None, None, "Unknown LLM provider")

AdpOps == {"chat", "chat_stream", "check_llm_available"}

\* The number of times the client sends the request of one call.  The
\* anthropic and google functions post once through httpx.  The openai and
\* ollama functions call an AsyncOpenAI client that is constructed without
\* max_retries: such a client may send a request again that failed to connect
\* or was answered with a 5xx status, up to its default number of retries.
ClientAttempts(provider, backend) ==
    IF /\ provider \in {"openai", "ollama"}
       /\ backend.message \in RefusedMessages \cup {"Error code: 500 - runner disconnected"}
    THEN {1, 2, 3}
    ELSE {1}

\* the provider function a chat call dispatches to, or None if it raises first
RequestTarget(in) ==
    LET provider == LlmResolve(in.override, in.LLM_PROVIDER) IN
    IF provider \in Providers /\ KeyError(provider, in.keys) = None THEN provider ELSE None

AdpInit ==
    /\ adp_in = Absent
    /\ adp_out = [op \in AdpOps |-> Absent]
    /\ adp_requests = [op \in AdpOps |-> <<>>]

AdpFrame == UNCHANGED <<sseVars, llmVars, embVars, storeVars, genVars, qaVars, ingVars, srfVars, lnVars, rkVars, neVars, admVars, smVars>>

\* the operation op runs on the inputs `in`
AdpRun(op, in) ==
    /\ adp_out[op] = Absent
    /\ adp_in' = in
    /\ adp_out' = [adp_out EXCEPT ![op] =
                      CASE op = "chat" -> llm_chat(in, FALSE)
                        [] op = "chat_stream" -> llm_chat(in, TRUE)
                        [] op = "check_llm_available" -> check_llm_available(in)]
    /\ IF op = "check_llm_available" \/ RequestTarget(in) = None
       THEN UNCHANGED adp_requests
       ELSE \E n \in ClientAttempts(RequestTarget(in), in.backend) :
               adp_requests' = [adp_requests EXCEPT ![op] = [k \in 1..n |-> RequestTarget(in)]]
    /\ AdpFrame

\* an operation runs on fresh inputs if it is the first of its round, and on
\* the inputs of the round otherwise
AdpChat ==
    IF adp_in = Absent THEN \E in \in AdpInputs : AdpRun("chat", in)
    ELSE AdpRun("chat", adp_in)

AdpChatStream ==
    IF adp_in = Absent THEN \E in \in AdpInputs : AdpRun("chat_stream", in)
    ELSE AdpRun("chat_stream", adp_in)

AdpCheckAvailable ==
    IF adp_in = Absent THEN \E in \in AdpInputs : AdpRun("check_llm_available", in)
    ELSE AdpRun("check_llm_available", adp_in)

\* the round ends
AdpDone ==
    /\ adp_in # Absent
    /\ adp_in' = Absent
    /\ adp_out' = [op \in AdpOps |-> Absent]
    /\ adp_requests' = [op \in AdpOps |-> <<>>]
    /\ AdpFrame

AdpNext ==
    \/ AdpChat
    \/ AdpChatStream
    \/ AdpCheckAvailable
    \/ AdpDone

(***************************************************************************)
(* Structured generation: slides and podcast (services/slides.py,          *)
(* services/podcast.py, endpoints/sources.py).                             *)
(***************************************************************************)
\* The provider's reply is a sequence of tokens: the code fence ```, the word
\* json, white space, prose that is not JSON, and JSON values.
Fence == [kind |-> "fence"]
JsonWord == [kind |-> "word"]
Ws == [kind |-> "ws"]
Prose == [kind |-> "prose"]
Json(v) == [kind |-> "json", value |-> v]

\* JSON values: an array, or an object with the keys `keys`
JArray == [type |-> "array", keys |-> {}, slides |-> <<>>, dialogue |-> <<>>]
JObject(keys, slides, dialogue) ==
    [type |-> "object", keys |-> keys, slides |-> slides, dialogue |-> dialogue]

GoodSlide == [slide_type |-> "bullets", title |-> "Key Points", content |-> "Point 1", notes |-> None]
UntitledSlide == [slide_type |-> "bullets", content |-> "Point 1"]

Turns == {[speaker |-> "HOST_A", text |-> "hi"], [speaker |-> "HOST_B", text |-> "hello"],
          [speaker |-> "HOST_A", text |-> ""]}
Dialogues == SeqUpTo(Turns, MaxTurns)

SlideBodies ==
    {Prose, Json(JArray), Json(JObject({}, <<>>, <<>>)),
     Json(JObject({"slides"}, <<>>, <<>>)),
     Json(JObject({"slides"}, <<GoodSlide, GoodSlide>>, <<>>)),
     Json(JObject({"slides"}, <<GoodSlide, UntitledSlide>>, <<>>))}

ScriptBodies ==
    {Prose, Json(JArray), Json(JObject({}, <<>>, <<>>))}
    \cup {Json(JObject({"title", "dialogue"}, <<>>, d)) : d \in Dialogues}

\* what surrounds the body of the reply
Leads == {<<>>, <<Ws>>, <<Fence, JsonWord, Ws>>, <<Fence, Ws>>, <<Fence, JsonWord, Fence>>,
          <<Prose, Ws>>}
Trails == {<<>>, <<Ws>>, <<Ws, Fence>>, <<Ws, Fence, Ws>>, <<Ws, Prose>>}

\* content.strip()
RECURSIVE StripWs(_)
StripWs(c) ==
    IF c # <<>> /\ Head(c) = Ws THEN StripWs(Tail(c))
    ELSE IF c # <<>> /\ Last(c) = Ws THEN StripWs(SubSeq(c, 1, Len(c) - 1))
    ELSE c

StartsWith(c, prefix) == Len(c) >= Len(prefix) /\ SubSeq(c, 1, Len(prefix)) = prefix
Drop(c, n) == SubSeq(c, n + 1, Len(c))

\* the removal of the Markdown code fences in generate_slides / generate_script
StripFences(content) ==
    LET c0 == StripWs(content)
        c1 == IF StartsWith(c0, <<Fence, JsonWord>>) THEN Drop(c0, 2) ELSE c0
        c2 == IF StartsWith(c1, <<Fence>>) THEN Drop(c1, 1) ELSE c1
        c3 == IF c2 # <<>> /\ Last(c2) = Fence THEN SubSeq(c2, 1, Len(c2) - 1) ELSE c2
    IN StripWs(c3)

\* json.loads: the text parses when it is one JSON value, white space around
\* it allowed
Parseable(content) ==
    LET c == StripWs(content) IN Len(c) = 1 /\ c[1].kind = "json"
json_loads(content) == StripWs(content)[1].value

\* the fallback deck of generate_slides
FallbackSlides ==
    <<[slide_type |-> "title", title |-> "Presentation",
       content |-> "Generated from your sources", notes |-> None],
      [slide_type |-> "bullets", title |-> "Key Points",
       content |-> <<"Unable to parse AI response", "Please try again">>, notes |-> None]>>

\* the fallback script of generate_script
FallbackScript ==
    [type |-> "object", keys |-> {"title", "dialogue"}, slides |-> <<>>,
     title |-> "Discussion of Your Sources",
     dialogue |->
       <<[speaker |-> "HOST_A", text |-> "Welcome! Today we're exploring some interesting content."],
         [speaker |-> "HOST_B", text |-> "I'm excited to discuss what we've found."],
         [speaker |-> "HOST_A", text |-> "Let's dive in. Our sources cover some fascinating topics."],
         [speaker |-> "HOST_B", text |-> "What stood out to you the most?"],
         [speaker |-> "HOST_A", text |-> "There's so much to unpack here. Thanks for listening!"]>>]

\* what a service function does: it returns a value or raises
Ret(v) == [value |-> v, etype |-> None]
Raise(etype) == [value |-> <<>>, etype |-> etype]

slides_generate_slides_NoFallback(reply) ==
    LET content == StripFences(reply) IN
    IF ~Parseable(content) THEN Raise("JSONDecodeError")
    ELSE LET data == json_loads(content) IN
         IF data.type # "object" THEN Raise("AttributeError")
         ELSE Ret(IF "slides" \in data.keys THEN data.slides ELSE <<>>)

\* SlidesService.generate_slides, from the provider's reply on
slides_generate_slides(reply) ==
    LET content == StripFences(reply) IN
    IF ~Parseable(content) THEN Ret(FallbackSlides)
    ELSE LET data == json_loads(content) IN
         IF data.type # "object" THEN Raise("AttributeError")
         ELSE Ret(IF "slides" \in data.keys THEN data.slides ELSE <<>>)

\* SlideData(**slide): the required fields are present
ValidSlide(slide) == {"slide_type", "title", "content"} \subseteq DOMAIN slide

\* endpoints/sources.py generate_slides, after the sources were found
slides_endpoint(reply) ==
    LET r == slides_generate_slides(reply) IN
    IF r.etype # None
    THEN [status |-> 500, service |-> r, slides |-> <<>>]
    ELSE IF \E k \in 1..Len(r.value) : ~ValidSlide(r.value[k])
    THEN [status |-> 500, service |-> r, slides |-> <<>>]
    ELSE [status |-> 200, service |-> r, slides |-> r.value]

\* PodcastService.generate_script, from the provider's reply on
podcast_generate_script(reply) ==
    LET content == StripFences(reply) IN
    IF ~Parseable(content) THEN Ret(FallbackScript) ELSE Ret(json_loads(content))

\* the duration in ms of the audio the TTS collaborator returns for a text
TtsMs(text) ==
    CASE text = "hi" -> 400
      [] text = "hello" -> 700
      [] OTHER -> 2000

\* PodcastService.VOICES
Voice(speaker) == IF speaker = "HOST_B" THEN "nova" ELSE "onyx"

\* AudioSegment.silent(duration=300)
PauseMs == 300
Pause == [kind |-> "silence", ms |-> PauseMs, text |-> "", voice |-> None]

\* the loop `for turn in dialogue:` of generate_podcast: the audio segments
\* appended, in order
RECURSIVE audio_segments(_)
audio_segments(dialogue) ==
    IF dialogue = <<>> THEN <<>>
    ELSE LET turn == Head(dialogue) IN
         IF turn.text = "" THEN audio_segments(Tail(dialogue))
         ELSE <<[kind |-> "speech", ms |-> TtsMs(turn.text), text |-> turn.text,
                 voice |-> Voice(turn.speaker)]>>
              \o <<Pause>> \o audio_segments(Tail(dialogue))

\* len(combined): the duration of the concatenation of the segments
RECURSIVE DurationMs(_)
DurationMs(segments) ==
    IF segments = <<>> THEN 0 ELSE Head(segments).ms + DurationMs(Tail(segments))

\* PodcastService.generate_podcast, from the provider's reply on
podcast_generate_podcast(reply) ==
    LET script == podcast_generate_script(reply).value IN
    IF script.type # "object" THEN Raise("AttributeError") @@ [dialogue |-> <<>>]
    ELSE LET dialogue == IF "dialogue" \in script.keys THEN script.dialogue ELSE <<>>
             segments == audio_segments(dialogue)
         IN
         IF dialogue = <<>> THEN Raise("ValueError") @@ [dialogue |-> dialogue]
         ELSE IF segments = <<>> THEN Raise("ValueError") @@ [dialogue |-> dialogue]
         ELSE Ret(segments) @@ [dialogue |-> dialogue]

\* endpoints/sources.py generate_podcast, after the sources were found
podcast_endpoint(reply) ==
    LET r == podcast_generate_podcast(reply) IN
    [status |-> CASE r.etype = None -> 200
                  [] r.etype = "ValueError" -> 503
                  [] OTHER -> 500,
     service |-> r]

GenInit ==
    /\ gen_in = Absent
    /\ gen_out = Absent

GenFrame == UNCHANGED <<sseVars, llmVars, embVars, storeVars, adpVars, qaVars, ingVars, srfVars, lnVars, rkVars, neVars, admVars, smVars>>

SlideReplies == {lead \o <<body>> \o trail : lead \in Leads, body \in SlideBodies, trail \in Trails}
ScriptReplies == {lead \o <<body>> \o trail : lead \in Leads, body \in ScriptBodies, trail \in Trails}

\* POST /sources/slides
GenerateSlides ==
    /\ gen_in = Absent
    /\ \E reply \in SlideReplies :
        /\ gen_in' = [op |-> "generate_slides", reply |-> reply]
        /\ gen_out' = slides_endpoint(reply)
    /\ GenFrame

\* PodcastService.generate_script
GenerateScript ==
    /\ gen_in = Absent
    /\ \E reply \in ScriptReplies :
        /\ gen_in' = [op |-> "generate_script", reply |-> reply]
        /\ gen_out' = [status |-> 0, service |-> podcast_generate_script(reply)]
    /\ GenFrame

\* POST /sources/podcast
GeneratePodcast ==
    /\ gen_in = Absent
    /\ \E reply \in ScriptReplies :
        /\ gen_in' = [op |-> "generate_podcast", reply |-> reply]
        /\ gen_out' = podcast_endpoint(reply)
    /\ GenFrame

\* the response has been sent
GenDone ==
    /\ gen_in # Absent
    /\ gen_in' = Absent
    /\ gen_out' = Absent
    /\ GenFrame

GenNext ==
    \/ GenerateSlides
    \/ GenerateScript
    \/ GeneratePodcast
    \/ GenDone

(***************************************************************************)
(* Q&A: the message list handed to the chat adapter (services/chat.py).    *)
(***************************************************************************)
Questions == {"q1", "q2"}
ContextTexts == {"No relevant notes found.", "Note 1: A1", "Note 1: A1 --- Note 2: A2"}

\* A history of n messages; message k holds k as its content, and the roles
\* alternate from the role of the first message.
HistoryOf(n, first) ==
    [k \in 1..n |->
        [role |-> IF (k % 2 = 1) = (first = "user") THEN "user" ELSE "assistant",
         content |-> k]]
Histories == {HistoryOf(n, first) : n \in 0..MaxHistory, first \in {"user", "assistant"}}

\* conversation_history[-10:]
HistoryKept == 10
LastN(h, n) == IF Len(h) <= n THEN h ELSE SubSeq(h, Len(h) - n + 1, Len(h))

\* f"Context from user's notes:\n\n{context}"
ContextMessage(context) ==
    [role |-> "system", content |-> <<"Context from user's notes:", context>>]

build_messages_First10(question, context, conversation_history) ==
    <<ContextMessage(context)>>
    \o (IF conversation_history # <<>>
        THEN SubSeq(conversation_history, 1,
                    IF Len(conversation_history) < HistoryKept
                    THEN Len(conversation_history) ELSE HistoryKept)
        ELSE <<>>)
    \o <<[role |-> "user", content |-> question]>>

\* ChatService._build_messages
build_messages(question, context, conversation_history) ==
    <<ContextMessage(context)>>
    \o (IF conversation_history # <<>> THEN LastN(conversation_history, HistoryKept) ELSE <<>>)
    \o <<[role |-> "user", content |-> question]>>

QaInit ==
    /\ qa_in = Absent
    /\ qa_messages = <<>>

QaFrame == UNCHANGED <<sseVars, llmVars, embVars, storeVars, adpVars, genVars, ingVars, srfVars, lnVars, rkVars, neVars, admVars, smVars>>

\* ChatService.answer_question / answer_question_stream build the messages
QaBuildMessages ==
    /\ qa_in = Absent
    /\ \E question \in Questions, context \in ContextTexts, history \in Histories :
        /\ qa_in' = [question |-> question, context |-> context, history |-> history]
        /\ qa_messages' = build_messages(question, context, history)
    /\ QaFrame

\* the messages have been handed to llm_service
QaSend ==
    /\ qa_in # Absent
    /\ qa_in' = Absent
    /\ qa_messages' = <<>>
    /\ QaFrame

QaNext ==
    \/ QaBuildMessages
    \/ QaSend

(***************************************************************************)
(* Ingestion: the status of a source and the background embedding of       *)
(* notes and sources (endpoints/sources.py, endpoints/notes.py).           *)
(***************************************************************************)
IngestIds == 1..MaxIngest

\* the requests that create a source in loading status, and all kinds of document
LoadingKinds == {"upload", "url", "youtube"}
DocKinds == LoadingKinds \cup {"text", "note"}

\* settings.LLM_PROVIDER, settings.OPENAI_API_KEY, and whether the embedding
\* backend of the active provider answers
IngestConfigs ==
    [LLM_PROVIDER : {"openai", "Ollama"}, OPENAI_API_KEY : BOOLEAN, backend_up : BOOLEAN]

\* a row: its status (notes have none), whether an embedding is stored,
\* whether a background embedding task is pending, and where its handler is
Doc(kind, status, pc, task) ==
    [kind |-> kind, status |-> status, embedding |-> FALSE, task |-> task, pc |-> pc]

\* `if settings.OPENAI_API_KEY: background_tasks.add_task(...)`
TaskScheduled(cfg) == cfg.OPENAI_API_KEY

\* embedding_service.generate_embedding returns a vector: the provider is
\* resolved by _get_provider, the openai client needs its key
EmbeddingSucceeds(cfg) ==
    /\ cfg.backend_up
    /\ (emb_get_provider(cfg) = "openai" => cfg.OPENAI_API_KEY)

IngInit ==
    /\ ing_cfg = Absent
    /\ ing_docs = [i \in IngestIds |-> Absent]

IngFrame == UNCHANGED <<sseVars, llmVars, embVars, storeVars, adpVars, genVars, qaVars, srfVars, lnVars, rkVars, neVars, admVars, smVars>>

FreshIngestId == CHOOSE i \in IngestIds : ing_docs[i] = Absent /\ \A j \in 1..(i - 1) : ing_docs[j] # Absent

\* config.py: the settings are read from the environment when the process starts
IngLoadSettings ==
    /\ ing_cfg = Absent
    /\ ing_cfg' \in IngestConfigs
    /\ UNCHANGED ing_docs
    /\ IngFrame

\* notes.py create_note
IngCreateNote ==
    /\ ing_cfg # Absent
    /\ \E i \in IngestIds : ing_docs[i] = Absent
    /\ ing_docs' = [ing_docs EXCEPT ![FreshIngestId] =
                       Doc("note", "none", "done", TaskScheduled(ing_cfg))]
    /\ UNCHANGED ing_cfg
    /\ IngFrame

\* sources.py create_text_source
IngCreateText ==
    /\ ing_cfg # Absent
    /\ \E i \in IngestIds : ing_docs[i] = Absent
    /\ ing_docs' = [ing_docs EXCEPT ![FreshIngestId] =
                       Doc("text", "success", "done", TaskScheduled(ing_cfg))]
    /\ UNCHANGED ing_cfg
    /\ IngFrame

\* sources.py upload_file, scrape_url, extract_youtube_transcript: the source
\* is committed with status loading
IngBegin ==
    /\ ing_cfg # Absent
    /\ \E i \in IngestIds : ing_docs[i] = Absent
    /\ \E kind \in LoadingKinds :
        ing_docs' = [ing_docs EXCEPT ![FreshIngestId] = Doc(kind, "loading", "extracting", FALSE)]
    /\ UNCHANGED ing_cfg
    /\ IngFrame

\* the extraction returns and status success is committed, or it raises and
\* the except clause commits status error
IngExtractedOf(i) ==
    /\ \E ok \in BOOLEAN :
        /\ ing_docs[i] # Absent
        /\ ing_docs[i].pc = "extracting"
        /\ ing_docs' = [ing_docs EXCEPT ![i] =
                           IF ok THEN [@ EXCEPT !.status = "success", !.pc = "committed"]
                           ELSE [@ EXCEPT !.status = "error", !.pc = "done"]]
    /\ UNCHANGED ing_cfg
    /\ IngFrame

IngExtracted == \E i \in IngestIds : IngExtractedOf(i)

\* the rest of the try block after the commit: db.refresh, the scheduling of
\* the embedding task and the response; if a statement raises, the except
\* clause commits status error
IngRespondOf(i) ==
    /\ \E ok \in BOOLEAN :
        /\ ing_docs[i] # Absent
        /\ ing_docs[i].pc = "committed"
        /\ ing_docs' = [ing_docs EXCEPT ![i] =
                           IF ok THEN [@ EXCEPT !.task = TaskScheduled(ing_cfg), !.pc = "done"]
                           ELSE [@ EXCEPT !.status = "error", !.pc = "done"]]
    /\ UNCHANGED ing_cfg
    /\ IngFrame

IngRespond == \E i \in IngestIds : IngRespondOf(i)

\* notes.py update_note, sources.py update_source with a new title or content
IngUpdate ==
    /\ \E i \in IngestIds :
        /\ ing_docs[i] # Absent
        /\ ing_docs[i].pc = "done"
        /\ ~ing_docs[i].task
        /\ TaskScheduled(ing_cfg)
        /\ ing_docs' = [ing_docs EXCEPT ![i] = [@ EXCEPT !.task = TRUE]]
    /\ UNCHANGED ing_cfg
    /\ IngFrame

\* notes.py generate_and_store_embedding, sources.py generate_source_embedding
IngEmbedOf(i) ==
    /\ ing_docs[i] # Absent
    /\ ing_docs[i].task
    /\ ing_docs' = [ing_docs EXCEPT ![i] =
                       IF EmbeddingSucceeds(ing_cfg)
                       THEN [@ EXCEPT !.embedding = TRUE, !.task = FALSE]
                       ELSE [@ EXCEPT !.task = FALSE]]
    /\ UNCHANGED ing_cfg
    /\ IngFrame

IngEmbed == \E i \in IngestIds : IngEmbedOf(i)

IngNext ==
    \/ IngLoadSettings
    \/ IngCreateNote
    \/ IngCreateText
    \/ IngBegin
    \/ IngExtracted
    \/ IngRespond
    \/ IngUpdate
    \/ IngEmbed

(***************************************************************************)
(* What the caller of an endpoint receives when a credential is missing or *)
(* the local backend is unreachable (endpoints/chat.py, endpoints/notes.py,*)
(* endpoints/sources.py).                                                  *)
(***************************************************************************)
AnsweringBackend ==
    [outcome |-> "ok", chunks |-> <<<<"a">>>>, noise |-> FALSE, message |-> None]
RefusingBackend ==
    [outcome |-> "refused", chunks |-> <<>>, noise |-> FALSE, message |-> "Connection refused"]

\* the settings of the process and whether the backend accepts connections
SrfInputs ==
    [LLM_PROVIDER : {"openai", "anthropic", "Ollama"}, override : {None},
     keys : SUBSET {"openai", "anthropic"},
     backend : {AnsweringBackend, RefusingBackend}]

GenerationKinds == {"summary", "slides", "podcast"}
WriteOps == {"create_note", "update_note", "create_text_source", "update_source"}

\* an HTTP response: `detail` is the fixed text of the handler and `cause` the
\* str(e) it puts into the detail, or None; `embedding` tells whether the
\* embedding task of a write was scheduled
Http(op, status, detail, cause, embedding) ==
    [op |-> op, status |-> status, detail |-> detail, cause |-> cause,
     embedding |-> embedding]

\* EmbeddingService.generate_embedding of a non-empty text: the message of the
\* exception it raises, or None
generate_embedding_error(in) ==
    IF emb_get_provider(in) = "ollama"
    THEN IF in.backend.outcome = "refused" THEN OllamaUnavailable ELSE None
    ELSE IF "openai" \notin in.keys THEN MissingKeyError("openai")
    ELSE in.backend.message

\* endpoints/chat.py chat
chat_response(in) ==
    LET available == check_llm_available(in)
        answer == llm_chat(in, FALSE)
    IN
    IF ~available.value THEN Http("chat", 503, available.emsg, None, None)
    ELSE IF generate_embedding_error(in) # None
    THEN Http("chat", 500, "Failed to process question", None, None)
    ELSE IF answer.etype # None
    THEN Http("chat", 500, "Failed to generate response", None, None)
    ELSE Http("chat", 200, "", None, None)

\* endpoints/chat.py chat_stream: failures of the answer are events of the
\* stream, the response itself is 200
chat_stream_response(in) ==
    IF "openai" \notin in.keys
    THEN Http("chat_stream", 503, "AI chat requires OpenAI API key to be configured",
              None, None)
    ELSE IF generate_embedding_error(in) # None
    THEN Http("chat_stream", 500, "Failed to process question", None, None)
    ELSE Http("chat_stream", 200, "", None, None)

\* the request passed the availability test at the head of the handler
PassedGate(response) == response.status # 503

QaEndpoints == {"chat", "chat_stream"}

\* endpoints/notes.py semantic_search
semantic_search_response(in) ==
    IF "openai" \notin in.keys
    THEN Http("semantic_search", 503,
              "Semantic search requires OpenAI API key to be configured", None, None)
    ELSE IF generate_embedding_error(in) # None
    THEN Http("semantic_search", 500, "Failed to process search query", None, None)
    ELSE Http("semantic_search", 200, "", None, None)

\* create_note, update_note, create_text_source, update_source: the row is
\* written and returned; the embedding task is scheduled only with an OpenAI
\* key, and the exception of a scheduled task is logged, not returned
write_response(op, in) ==
    Http(op, IF op \in {"create_note", "create_text_source"} THEN 201 ELSE 200, "", None,
         IF "openai" \notin in.keys THEN "skipped"
         ELSE IF generate_embedding_error(in) # None THEN "failed"
         ELSE "stored")

\* endpoints/sources.py generate_summary, generate_slides, generate_podcast
\* when the sources exist: the services re-raise the exception of
\* llm_service.chat, the handlers put str(e) into the detail
generate_response(kind, in) ==
    LET reply == llm_chat(in, FALSE) IN
    IF reply.etype = None THEN Http(kind, 200, "", None, None)
    ELSE IF kind = "podcast" /\ reply.etype = "ValueError"
    THEN Http(kind, 503, "", reply.emsg, None)
    ELSE Http(kind, 500, "Failed to generate", reply.emsg, None)

SrfInit ==
    /\ srf_in = Absent
    /\ srf_resp = Absent
    /\ srf_gate = [e \in QaEndpoints |-> Absent]

SrfFrame == UNCHANGED <<sseVars, llmVars, embVars, storeVars, adpVars, genVars, qaVars, ingVars, lnVars, rkVars, neVars, admVars, smVars>>

\* a request is served under the settings the process was started with
SrfSettings == IF srf_in = Absent THEN SrfInputs ELSE {srf_in}

SrfChat ==
    /\ srf_resp = Absent
    /\ \E in \in SrfSettings :
        /\ srf_in' = in
        /\ srf_resp' = chat_response(in)
        /\ srf_gate' = [srf_gate EXCEPT !["chat"] = [passed |-> PassedGate(chat_response(in))]]
    /\ SrfFrame

SrfChatStream ==
    /\ srf_resp = Absent
    /\ \E in \in SrfSettings :
        /\ srf_in' = in
        /\ srf_resp' = chat_stream_response(in)
        /\ srf_gate' = [srf_gate EXCEPT
                           !["chat_stream"] = [passed |-> PassedGate(chat_stream_response(in))]]
    /\ SrfFrame

SrfSemanticSearch ==
    /\ srf_resp = Absent
    /\ \E in \in SrfSettings :
        /\ srf_in' = in
        /\ srf_resp' = semantic_search_response(in)
    /\ UNCHANGED srf_gate
    /\ SrfFrame

SrfWrite ==
    /\ srf_resp = Absent
    /\ \E in \in SrfSettings, op \in WriteOps :
        /\ srf_in' = in
        /\ srf_resp' = write_response(op, in)
    /\ UNCHANGED srf_gate
    /\ SrfFrame

SrfGenerate ==
    /\ srf_resp = Absent
    /\ \E in \in SrfSettings, kind \in GenerationKinds :
        /\ srf_in' = in
        /\ srf_resp' = generate_response(kind, in)
    /\ UNCHANGED srf_gate
    /\ SrfFrame

\* the caller has read the response
SrfReceived ==
    /\ srf_resp # Absent
    /\ srf_resp' = Absent
    /\ UNCHANGED <<srf_in, srf_gate>>
    /\ SrfFrame

\* the process is restarted with other settings
SrfRestart ==
    /\ srf_in # Absent
    /\ srf_resp = Absent
    /\ srf_in' = Absent
    /\ srf_gate' = [e \in QaEndpoints |-> Absent]
    /\ UNCHANGED srf_resp
    /\ SrfFrame

SrfNext ==
    \/ SrfChat
    \/ SrfChatStream
    \/ SrfSemanticSearch
    \/ SrfWrite
    \/ SrfGenerate
    \/ SrfReceived
    \/ SrfRestart

(***************************************************************************)
(* The line loops of the anthropic and google streams (services/llm.py).   *)
(***************************************************************************)
\* A received line, by what the loop can tell about it:
\*   "text"     `data: ` + a well-formed text-delta event carrying `text`
\*   "other"    `data: ` + a JSON object that is an event of another type
\*   "not_data" a line that does not start with `data: `
\*   "bad_json" `data: ` + a payload json.loads rejects
\*   "done"     `data: [DONE]`
\*   "scalar"   `data: ` + valid JSON that is not an object (null, 1, [])
LineKinds == {"text", "other", "not_data", "bad_json", "done", "scalar"}
Line(kind, text) == [kind |-> kind, text |-> text]
Lines ==
    {Line("text", t) : t \in {"a", "b"}} \cup {Line(k, "") : k \in LineKinds \ {"text"}}
StreamProviders == {"anthropic", "google"}

\* one pass of the loop body of _chat_stream_anthropic
anthropic_line(line) ==
    CASE line.kind = "not_data" -> "skip"    \* line.startswith("data: ") is false
      [] line.kind = "done"     -> "break"   \* data.strip() == "[DONE]"
      [] line.kind = "bad_json" -> "skip"    \* except json.JSONDecodeError: continue
      [] line.kind = "scalar"   -> "raise"   \* event.get: AttributeError, not caught
      [] line.kind = "other"    -> "skip"    \* not a content_block_delta / text_delta
      [] OTHER                  -> "yield"

\* one pass of the loop body of _chat_stream_google
google_line(line) ==
    CASE line.kind = "not_data" -> "skip"
      [] line.kind = "done"     -> "skip"    \* json.loads("[DONE]") raises JSONDecodeError
      [] line.kind = "bad_json" -> "skip"
      [] line.kind = "scalar"   -> "raise"   \* event.get: AttributeError, not caught
      [] line.kind = "other"    -> "skip"    \* no candidates
      [] OTHER                  -> "yield"

line_step(provider, line) ==
    IF provider = "anthropic" THEN anthropic_line(line) ELSE google_line(line)

\* `async for line in response.aiter_lines()`: the fragments yielded and the
\* exception that ended the generator, or None
RECURSIVE stream_lines(_, _)
stream_lines(provider, lines) ==
    IF lines = <<>> THEN [fragments |-> <<>>, error |-> None]
    ELSE LET step == line_step(provider, Head(lines))
             rest == stream_lines(provider, Tail(lines))
         IN CASE step = "break" -> [fragments |-> <<>>, error |-> None]
              [] step = "raise" -> [fragments |-> <<>>, error |-> "AttributeError"]
              [] step = "yield" -> [rest EXCEPT !.fragments = <<Head(lines).text>> \o @]
              [] OTHER          -> rest

LnInit ==
    /\ ln_in = Absent
    /\ ln_out = Absent

LnFrame == UNCHANGED <<sseVars, llmVars, embVars, storeVars, adpVars, genVars, qaVars, ingVars, srfVars, rkVars, neVars, admVars, smVars>>

\* a caller iterates chat_stream to its end while the backend sends `lines`
LnRead ==
    /\ ln_in = Absent
    /\ \E provider \in StreamProviders, lines \in SeqUpTo(Lines, MaxLines) :
        /\ ln_in' = [provider |-> provider, lines |-> lines]
        /\ ln_out' = stream_lines(provider, lines)
    /\ LnFrame

\* the generator is closed
LnClose ==
    /\ ln_in # Absent
    /\ ln_in' = Absent
    /\ ln_out' = Absent
    /\ LnFrame

LnNext ==
    \/ LnRead
    \/ LnClose

(***************************************************************************)
(* The order of the rows of a similarity query (endpoints/notes.py,        *)
(* endpoints/chat.py).                                                     *)
(***************************************************************************)
RowIds == 1..MaxRows
\* similarities above the threshold, in tenths
RowSimilarities == {5, 9}
RankedEndpoints == {"semantic_search", "get_similar_notes", "chat"}

\* the matching rows: each has a similarity, and no two rows were updated at
\* the same instant (updated_at is the rank of the row's last update)
RowTables ==
    {t \in [RowIds -> [similarity : RowSimilarities, updated_at : RowIds]] :
        \A i, j \in RowIds : t[i].updated_at = t[j].updated_at => i = j}

RkInit ==
    /\ rk_rows = [i \in RowIds |-> [similarity |-> 9, updated_at |-> i]]
    /\ rk_query = Absent
    /\ rk_result = <<>>

RkFrame == UNCHANGED <<sseVars, llmVars, embVars, storeVars, adpVars, genVars, qaVars, ingVars, srfVars, lnVars, neVars, admVars, smVars>>

\* notes are created and updated: the table holds other rows
RkWrite ==
    /\ rk_query = Absent
    /\ rk_rows' \in RowTables
    /\ UNCHANGED <<rk_query, rk_result>>
    /\ RkFrame

\* `ORDER BY similarity DESC LIMIT :limit` of semantic_search,
\* get_similar_notes and chat: the database returns one of the orders
RkSelect ==
    /\ rk_query = Absent
    /\ \E endpoint \in RankedEndpoints, limit \in RowIds :
        /\ rk_query' = [endpoint |-> endpoint, limit |-> limit]
        /\ rk_result' \in OrderedLimited(RowIds, [i \in RowIds |-> rk_rows[i].similarity], limit)
    /\ UNCHANGED rk_rows
    /\ RkFrame

\* the handler has built its response from the rows
RkRespond ==
    /\ rk_query # Absent
    /\ rk_query' = Absent
    /\ rk_result' = <<>>
    /\ UNCHANGED rk_rows
    /\ RkFrame

RkNext ==
    \/ RkWrite
    \/ RkSelect
    \/ RkRespond

(***************************************************************************)
(* One note under concurrent updates and background embedding tasks        *)
(* (endpoints/notes.py, EmbeddingService.prepare_note_text).               *)
(***************************************************************************)
NoteTitles == {"T", "U"}
NoteContents == {"", "c"}
NoteTags == {<<>>, <<"x">>}
Unset == "unset"

\* NoteUpdate with exclude_unset: the fields the request sets
NoteUpdates ==
    [title : NoteTitles \cup {Unset}, content : NoteContents \cup {Unset},
     tags : NoteTags \cup {<<Unset>>}]

\* EmbeddingService.prepare_note_text: "\n\n".join(parts)
prepare_note_text(title, content, tags) ==
    <<title>> \o (IF tags # <<>> THEN <<<<"Tags: ">> \o tags>> ELSE <<>>)
              \o (IF content # "" THEN <<content>> ELSE <<>>)

\* the vector the backend computes is determined by the text: the embedding
\* is represented by the text it was computed from
EmbeddingOf(text) == [of |-> text]
\* the embedding column is NULL
NoEmbedding == [of |-> <<>>]

NoteText(note) == prepare_note_text(note.title, note.content, note.tags)

TaskIds == 0..MaxEdits

NeInit ==
    /\ ne_note = [title |-> "T", content |-> "", tags |-> <<>>, embedding |-> NoEmbedding]
    /\ ne_tasks = [k \in TaskIds |-> IF k = 0 THEN [pc |-> "scheduled"] ELSE Absent]
    /\ ne_log = 0
    /\ ne_last = [status |-> 201, embedding |-> NoEmbedding]

NeFrame == UNCHANGED <<sseVars, llmVars, embVars, storeVars, adpVars, genVars, qaVars, ingVars, srfVars, lnVars, rkVars, admVars, smVars>>

FreshTaskId == CHOOSE k \in TaskIds : ne_tasks[k] = Absent /\ \A j \in 0..(k - 1) : ne_tasks[j] # Absent

\* notes.py update_note with OPENAI_API_KEY set: the fields are assigned and
\* committed, and a task is scheduled if title, content or tags were sent
NeUpdate ==
    /\ ne_note # Absent
    /\ \E k \in TaskIds : ne_tasks[k] = Absent
    /\ \E upd \in NoteUpdates :
        LET content_changed ==
                upd.title # Unset \/ upd.content # Unset \/ upd.tags # <<Unset>>
            updated == [ne_note EXCEPT
                           !.title = IF upd.title # Unset THEN upd.title ELSE @,
                           !.content = IF upd.content # Unset THEN upd.content ELSE @,
                           !.tags = IF upd.tags # <<Unset>> THEN upd.tags ELSE @]
        IN
        /\ content_changed
        /\ ne_note' = updated
        /\ ne_tasks' = [ne_tasks EXCEPT ![FreshTaskId] = [pc |-> "scheduled"]]
        /\ ne_last' = [status |-> 200, embedding |-> updated.embedding]
    /\ UNCHANGED ne_log
    /\ NeFrame

\* notes.py delete_note
NeDelete ==
    /\ ne_note # Absent
    /\ ne_note' = Absent
    /\ ne_last' = [status |-> 204, embedding |-> NoEmbedding]
    /\ UNCHANGED <<ne_tasks, ne_log>>
    /\ NeFrame

\* generate_and_store_embedding up to `await
\* embedding_service.generate_embedding(text)`: the note is selected and its
\* text prepared; a note that is gone ends the task with a warning
NeTaskRead(k) ==
    /\ ne_tasks[k] # Absent
    /\ ne_tasks[k].pc = "scheduled"
    /\ IF ne_note = Absent
       THEN /\ ne_tasks' = [ne_tasks EXCEPT ![k] = [pc |-> "not_found"]]
            /\ ne_log' = ne_log + 1
       ELSE /\ ne_tasks' = [ne_tasks EXCEPT ![k] = [pc |-> "embedding", text |-> NoteText(ne_note)]]
            /\ UNCHANGED ne_log
    /\ UNCHANGED <<ne_note, ne_last>>
    /\ NeFrame

\* the rest of the task: the backend answers and `note.embedding = embedding`
\* is committed (an UPDATE of the embedding column of the row, if the row
\* still exists), or generate_embedding raises and the except clause logs
\* and rolls back
NeTaskStore_ClearsOnFailure(k) ==
    /\ ne_tasks[k] # Absent
    /\ ne_tasks[k].pc = "embedding"
    /\ \E ok \in BOOLEAN :
        IF ok /\ ne_note # Absent
        THEN /\ ne_note' = [ne_note EXCEPT !.embedding = EmbeddingOf(ne_tasks[k].text)]
             /\ ne_tasks' = [ne_tasks EXCEPT ![k] = [pc |-> "stored", text |-> @.text]]
             /\ UNCHANGED ne_log
        ELSE /\ ne_tasks' = [ne_tasks EXCEPT ![k] = [pc |-> "failed", text |-> @.text]]
             /\ ne_log' = ne_log + 1
             /\ ne_note' = IF ne_note = Absent THEN Absent
                           ELSE [ne_note EXCEPT !.embedding = NoEmbedding]
    /\ UNCHANGED ne_last
    /\ NeFrame
NeTaskStore(k) ==
    /\ ne_tasks[k] # Absent
    /\ ne_tasks[k].pc = "embedding"
    /\ \E ok \in BOOLEAN :
        IF ok /\ ne_note # Absent
        THEN /\ ne_note' = [ne_note EXCEPT !.embedding = EmbeddingOf(ne_tasks[k].text)]
             /\ ne_tasks' = [ne_tasks EXCEPT ![k] = [pc |-> "stored", text |-> @.text]]
             /\ UNCHANGED ne_log
        ELSE /\ ne_tasks' = [ne_tasks EXCEPT ![k] = [pc |-> "failed", text |-> @.text]]
             /\ ne_log' = ne_log + 1
             /\ UNCHANGED ne_note
    /\ UNCHANGED ne_last
    /\ NeFrame

NeTaskReads == \E k \in TaskIds : NeTaskRead(k)

NeTaskStores == \E k \in TaskIds : NeTaskStore(k)

NeNext ==
    \/ NeUpdate
    \/ NeDelete
    \/ NeTaskReads
    \/ NeTaskStores

(***************************************************************************)
(* Admin user management (endpoints/admin.py).                             *)
(***************************************************************************)
AdminIds == 1..MaxAdmins

\* AdminUserUpdate with exclude_unset: the flags the request sets
AdminUpdates ==
    {[field |-> f, value |-> v] : f \in {"is_active", "is_superuser"}, v \in BOOLEAN}

AdminRequests ==
    [op : {"delete_user"}, user_id : AdminIds]
    \cup [op : {"update_user"}, user_id : AdminIds, user_in : AdminUpdates]

\* Depends(get_current_active_superuser): the caller exists, is active and
\* is a superuser
get_current_active_superuser(users, caller) ==
    /\ users[caller] # Absent
    /\ users[caller].is_active
    /\ users[caller].is_superuser

AdmInit ==
    /\ adm_users = [u \in AdminIds |-> [is_active |-> TRUE, is_superuser |-> TRUE]]
    /\ adm_reqs = [u \in AdminIds |-> Absent]

AdmFrame == UNCHANGED <<sseVars, llmVars, embVars, storeVars, adpVars, genVars, qaVars, ingVars, srfVars, lnVars, rkVars, neVars, smVars>>

\* a request arrives and the dependencies of the route are resolved
AdmAdmit ==
    /\ \E caller \in AdminIds, req \in AdminRequests :
        /\ adm_reqs[caller] = Absent
        /\ get_current_active_superuser(adm_users, caller)
        /\ adm_reqs' = [adm_reqs EXCEPT ![caller] = req]
    /\ UNCHANGED adm_users
    /\ AdmFrame

\* admin.py update_user, from the select to the commit
update_user(users, current_user, user_id, user_in) ==
    IF users[user_id] = Absent THEN users                              \* 404
    ELSE IF /\ user_id = current_user
            /\ user_in.field = "is_superuser" /\ user_in.value = FALSE
    THEN users                                                         \* 400
    ELSE IF /\ user_id = current_user
            /\ user_in.field = "is_active" /\ user_in.value = FALSE
    THEN users                                                         \* 400
    ELSE [users EXCEPT ![user_id] =
             IF user_in.field = "is_active" THEN [@ EXCEPT !.is_active = user_in.value]
             ELSE [@ EXCEPT !.is_superuser = user_in.value]]

\* admin.py delete_user
delete_user(users, current_user, user_id) ==
    IF users[user_id] = Absent THEN users                              \* 404
    ELSE IF user_id = current_user THEN users                          \* 400
    ELSE [users EXCEPT ![user_id] = Absent]

\* the handler of an admitted update_user request runs
AdmUpdateUser ==
    /\ \E caller \in AdminIds :
        /\ adm_reqs[caller] # Absent
        /\ adm_reqs[caller].op = "update_user"
        /\ adm_users' = update_user(adm_users, caller, adm_reqs[caller].user_id,
                                    adm_reqs[caller].user_in)
        /\ adm_reqs' = [adm_reqs EXCEPT ![caller] = Absent]
    /\ AdmFrame

\* the handler of an admitted delete_user request runs
AdmDeleteUser ==
    /\ \E caller \in AdminIds :
        /\ adm_reqs[caller] # Absent
        /\ adm_reqs[caller].op = "delete_user"
        /\ adm_users' = delete_user(adm_users, caller, adm_reqs[caller].user_id)
        /\ adm_reqs' = [adm_reqs EXCEPT ![caller] = Absent]
    /\ AdmFrame

AdmNext ==
    \/ AdmAdmit
    \/ AdmUpdateUser
    \/ AdmDeleteUser

(***************************************************************************)
(* Summary prompts (services/summary.py).  A string is a sequence of       *)
(* tokens: the literals of the f-strings, a title, or one character of a   *)
(* content.                                                                *)
(***************************************************************************)
\* source.get("content", "")[:8000]
ContentLimit == 8000

SummaryTypes == {"comprehensive", "key_points", "brief"}

\* SUMMARY_PROMPTS
SUMMARY_PROMPTS == [t \in SummaryTypes |-> <<"SUMMARY_PROMPTS", t>>]

SourceTitles == {"T1", "T2"}
SourceContents ==
    {<<>>, <<"a", "b">>,
     [i \in 1..ContentLimit |-> "a"],
     [i \in 1..ContentLimit |-> "a"] \o <<"b">>}
SummarySources == [title : SourceTitles, content : SourceContents]
SummaryFunctions == {"generate_summary", "generate_summary_stream"}

\* the separator of "\n\n---\n\n".join(context_parts)
ContextSeparator == "\n\n---\n\n"

\* f"Source {i}: {source.get('title', 'Untitled')}\n{content}"
context_part_Unlimited(i, source) ==
    <<"Source ", ToString(i), ": ", source.title, "\n">> \o source.content
context_part(i, source) ==
    <<"Source ", ToString(i), ": ", source.title, "\n">>
        \o (IF Len(source.content) > ContentLimit
            THEN SubSeq(source.content, 1, ContentLimit) ELSE source.content)

\* SummaryService._build_context
RECURSIVE summary_build_context_from(_, _)
summary_build_context_from(i, srcs) ==
    IF i > Len(srcs) THEN <<>>
    ELSE (IF i > 1 THEN <<ContextSeparator>> ELSE <<>>)
            \o context_part(i, srcs[i]) \o summary_build_context_from(i + 1, srcs)
summary_build_context(srcs) == summary_build_context_from(1, srcs)

\* SUMMARY_PROMPTS.get(summary_type, SUMMARY_PROMPTS["comprehensive"])
summary_system_prompt(summary_type) ==
    IF summary_type \in DOMAIN SUMMARY_PROMPTS THEN SUMMARY_PROMPTS[summary_type]
    ELSE SUMMARY_PROMPTS["comprehensive"]

\* the llm_service call of generate_summary and generate_summary_stream
summary_request(in) ==
    [method        |-> IF in.function = "generate_summary" THEN "chat" ELSE "chat_stream",
     messages      |-> <<[role |-> "user",
                          content |-> <<"Please summarize these sources:\n\n">>
                                          \o summary_build_context(in.sources)]>>,
     system_prompt |-> summary_system_prompt(in.summary_type),
     max_tokens    |-> 2000,
     temperature   |-> 7]     \* temperature=0.7, in tenths

SmInit ==
    /\ sm_in = Absent
    /\ sm_req = Absent
    /\ sm_out = Absent

SmFrame == UNCHANGED <<sseVars, llmVars, embVars, storeVars, adpVars, genVars, qaVars, ingVars, srfVars, lnVars, rkVars, neVars, admVars>>

\* generate_summary is called and reaches its llm_service.chat call
SmGenerateSummary ==
    /\ sm_in = Absent
    /\ \E srcs \in SeqUpTo(SummarySources, MaxSources),
          summary_type \in SummaryTypes \cup {"other"} :
        LET in == [function |-> "generate_summary", sources |-> srcs,
                   summary_type |-> summary_type] IN
        /\ sm_in' = in
        /\ sm_req' = summary_request(in)
    /\ UNCHANGED sm_out
    /\ SmFrame

\* generate_summary_stream is iterated and reaches its llm_service.chat_stream call
SmGenerateSummaryStream ==
    /\ sm_in = Absent
    /\ \E srcs \in SeqUpTo(SummarySources, MaxSources),
          summary_type \in SummaryTypes \cup {"other"} :
        LET in == [function |-> "generate_summary_stream", sources |-> srcs,
                   summary_type |-> summary_type] IN
        /\ sm_in' = in
        /\ sm_req' = summary_request(in)
    /\ UNCHANGED sm_out
    /\ SmFrame

\* the provider answers or fails: the text is returned (or streamed and closed
\* by [DONE]); the exception is re-raised (or becomes the error event)
SmAnswered ==
    /\ sm_req # Absent
    /\ sm_out = Absent
    /\ \E ok \in BOOLEAN :
        sm_out' = IF sm_in.function = "generate_summary"
                  THEN (IF ok THEN [returned |-> "summary"] ELSE [raised |-> "error"])
                  ELSE (IF ok THEN [events |-> <<"content", "[DONE]">>]
                        ELSE [events |-> <<"error">>])
    /\ UNCHANGED <<sm_in, sm_req>>
    /\ SmFrame

SmDone ==
    /\ sm_out # Absent
    /\ sm_in' = Absent
    /\ sm_req' = Absent
    /\ sm_out' = Absent
    /\ SmFrame

SmNext ==
    \/ SmGenerateSummary
    \/ SmGenerateSummaryStream
    \/ SmAnswered
    \/ SmDone

Init ==
    /\ SseInit
    /\ LlmInit
    /\ EmbInit
    /\ StoreInit
    /\ AdpInit
    /\ GenInit
    /\ QaInit
    /\ IngInit
    /\ SrfInit
    /\ LnInit
    /\ RkInit
    /\ NeInit
    /\ AdmInit
    /\ SmInit

SpecLLM == Init /\ [][LlmNext]_vars

SpecEmb == Init /\ [][EmbNext]_vars

SpecStore == Init /\ [][StoreNext]_vars

SpecAdp == Init /\ [][AdpNext]_vars

SpecGen == Init /\ [][GenNext]_vars

SpecQA == Init /\ [][QaNext]_vars

SpecIngest == Init /\ [][IngNext]_vars

SpecSurface == Init /\ [][SrfNext]_vars

SpecLines == Init /\ [][LnNext]_vars

SpecRank == Init /\ [][RkNext]_vars

SpecNote == Init /\ [][NeNext]_vars

SpecAdmin == Init /\ [][AdmNext]_vars

SpecSummary == Init /\ [][SmNext]_vars

\* Every handler runs to its end and FastAPI runs every scheduled background task.
SpecIngestLive ==
    /\ Init
    /\ [][IngNext]_vars
    /\ \A i \in IngestIds : WF_vars(IngExtractedOf(i))
    /\ \A i \in IngestIds : WF_vars(IngRespondOf(i))
    /\ \A i \in IngestIds : WF_vars(IngEmbedOf(i))

SpecSSE == Init /\ [][SseNext]_vars

\* the provider was reached (the empty-sources guard did not return first)
SseProviderUsed == ~(sse_nosrc /\ HasEmptySourcesGuard(sse_gen))

\* the content events of the first n fragments of the provider stream
ContentEventsOf(fs, n) == [i \in 1..n |-> ContentEvent(fs[i])]

IsContent(e) == e.type = "content"
IsError(e) == e.type = "error"
IsDone(e) == e.type = "done"

\* C1: when the provider stream completes without error, the events of each
\* generator are one content event per provider fragment, in provider order,
\* followed by exactly one [DONE] event and nothing else.
C1_SuccessStream ==
    (sse_pc = "done" /\ SseProviderUsed /\ ~sse_fail) =>
        sse_out = ContentEventsOf(sse_frags, Len(sse_frags)) \o <<DoneEvent>>

C1_Witness ==
    /\ sse_pc = "done" /\ SseProviderUsed /\ ~sse_fail
    /\ Len(sse_frags) = 2
    /\ sse_gen = "generate_script_stream"

\* C2: when the provider stream raises (before the first fragment or later),
\* each generator yields exactly one error event, placed after the content
\* events already yielded, yields no content event after it, and ends without
\* an exception reaching its consumer.
C2_ErrorStream ==
    (sse_pc = "done" /\ SseProviderUsed /\ sse_fail) =>
        /\ Len(SelectSeq(sse_out, IsError)) = 1
        /\ SelectSeq(sse_out, IsContent) = ContentEventsOf(sse_frags, Len(sse_frags))
        /\ \A i, j \in 1..Len(sse_out) :
               (IsError(sse_out[i]) /\ IsContent(sse_out[j])) => j < i
        /\ ~sse_exc

C2_Witness ==
    /\ sse_pc = "done" /\ SseProviderUsed /\ sse_fail
    /\ Len(sse_frags) = 1
    /\ sse_gen = "answer_question_stream"

\* C3: every stream of the four generators ends with [DONE] as its last event,
\* in every execution (provider success, provider failure, empty source list).
C3_AlwaysEndsWithDone ==
    sse_pc = "done" => (sse_out # <<>> /\ Last(sse_out) = DoneEvent)

\* the roles of the messages in the list sent to the backend
SentRoles ==
    IF llm_provider = "google"
    THEN {llm_sent.contents[i].role : i \in 1..Len(llm_sent.contents)}
    ELSE {llm_sent.messages[i].role : i \in 1..Len(llm_sent.messages)}

\* the text of the separate system field of the request, or None
SentSystemField ==
    CASE llm_provider = "anthropic" -> llm_sent.system
      [] llm_provider = "google" ->
            IF llm_sent.systemInstruction = Absent THEN None
            ELSE llm_sent.systemInstruction.parts[1].text
      [] OTHER -> None

\* C4: for the anthropic and google backends, in chat and chat_stream and for
\* every input, no system-role message is in the message list sent, and the
\* content of every system-role message of the input list is contained in the
\* separate system field of the request.
C4_SystemExtracted ==
    (llm_pc = "called" /\ llm_provider \in {"anthropic", "google"} /\ llm_sent # Absent) =>
        /\ "system" \notin SentRoles
        /\ \A i \in 1..Len(llm_messages) :
               llm_messages[i].role = "system" =>
                   SentSystemField = llm_messages[i].content

\* the operations that retrieve documents by similarity to a query text
RetrievalOps == {"chat", "chat_stream", "semantic_search"}

\* C5: the documents retrieved as Q&A context and as semantic-search results
\* all belong to the requesting user, are not archived, have an embedding, have
\* a similarity of at least the threshold, are at most `limit` many and come in
\* descending order of similarity; the Q&A context is these documents in order.
C5_RetrievedDocuments ==
    resp.op \in RetrievalOps =>
        /\ Len(resp.rows) <= resp.limit
        /\ \A k \in 1..Len(resp.rows) :
            /\ resp.rows[k].owner = resp.user
            /\ resp.rows[k].is_archived = FALSE
            /\ resp.rows[k].embedding # None
            /\ resp.rows[k].similarity >= resp.threshold
        /\ \A j, k \in 1..Len(resp.rows) :
            j < k => resp.rows[j].similarity >= resp.rows[k].similarity
        /\ resp.op \in {"chat", "chat_stream"} =>
            /\ Len(resp.context) = Len(resp.rows)
            /\ \A k \in 1..Len(resp.rows) : resp.context[k].id = resp.rows[k].id

\* a search answered with two documents of different similarity
C5_Witness ==
    /\ resp.op = "semantic_search"
    /\ resp.status = 200
    /\ Len(resp.rows) = 2
    /\ resp.rows[1].similarity > resp.rows[2].similarity

\* the texts of the documents user u owns
OwnTexts(u) ==
    {notes[i].text : i \in {j \in NoteIds : notes[j] # Absent /\ notes[j].owner = u}}
    \cup {sources[i].text : i \in {j \in SourceIds : sources[j] # Absent /\ sources[j].owner = u}}

\* the operations that build a prompt from retrieved notes
PromptOps == {"chat", "chat_stream"}

\* the operations that name one document by its identifier
SingleIdOps == {"get_note", "update_note", "delete_note", "archive_note",
                "get_source", "update_source", "delete_source"}

\* C6: in every state reached by any sequence of operations of both users, the
\* response of an operation of user u, and the prompt built for it, hold only
\* content of documents u owns, and an operation that names a document of
\* another user answers 404 and leaves the store as it was.
C6_OwnershipIsolation ==
    resp # NoResponse =>
        /\ resp.texts \subseteq OwnTexts(resp.user)
        /\ \A t \in resp.texts : Author(t) = resp.user
        /\ resp.op \in PromptOps =>
            \A k \in 1..Len(resp.prompt) :
                /\ resp.prompt[k] \in OwnTexts(resp.user)
                /\ Author(resp.prompt[k]) = resp.user
        /\ resp.op \in SingleIdOps => (resp.foreign => resp.status = 404 /\ resp.texts = {})
        /\ resp.op \in GenerationOps =>
            (resp.status = 404 <=> SelectOwnSources(resp.user, resp.ids) = {})

\* user A gets an answer built from A's note while B has an embedded,
\* unarchived note that is closer to the question
C6_Witness ==
    /\ resp.op = "chat"
    /\ resp.user = "A"
    /\ resp.status = 200
    /\ Len(resp.prompt) >= 1
    /\ \E i \in NoteIds :
        /\ notes[i] # Absent
        /\ notes[i].owner = "B"
        /\ notes[i].embedding # None
        /\ notes[i].is_archived = FALSE
        /\ Similarity(resp.q, notes[i].embedding) > resp.rows[1].similarity

\* s is t with some elements left out
IsSubSeqOf(s, t) ==
    \E f \in [1..Len(s) -> 1..Len(t)] :
        /\ \A i, j \in 1..Len(s) : i < j => f[i] < f[j]
        /\ \A i \in 1..Len(s) : s[i] = t[f[i]]

\* the (id, title, similarity) of the context documents
Provenance(context_notes) ==
    [k \in 1..Len(context_notes) |-> [id |-> context_notes[k].id,
                                      title |-> context_notes[k].title,
                                      similarity |-> context_notes[k].similarity]]

\* C7: every answered Q&A request, streaming or not, carries a provenance list
\* whose entries (id, title, similarity) are context documents of the prompt,
\* in the order of the context.
C7_ProvenanceSurfaced ==
    (resp.op \in PromptOps /\ resp.status = 200) =>
        /\ resp.has_sources
        /\ IsSubSeqOf(resp.sources, Provenance(resp.context))

\* C8: generate_embedding with an empty or whitespace-only text returns the
\* all-zero vector of the configured dimension (1536) and makes no backend
\* call, whichever provider is configured or passed as override.
C8_EmptyTextZeroVector ==
    (emb_pc = "returned" /\ emb_op = "single" /\ Strip(emb_text) = <<>>) =>
        /\ emb_error = None
        /\ emb_result = Vec(1536, 0)
        /\ emb_calls = <<>>

C8_Witness ==
    /\ emb_pc = "returned" /\ emb_op = "single"
    /\ emb_text = <<" ", " ">>
    /\ emb_override = "ollama"
    /\ emb_backend.outcome = "connect_error"
    /\ emb_result = Vec(1536, 0)

\* C9: for every text and both backends, generate_embedding returns a vector
\* whose length is exactly the configured dimension (1536), whatever the
\* backend responds.
C9_ResultHasConfiguredDimension ==
    (emb_pc = "returned" /\ emb_op = "single" /\ emb_error = None) =>
        VecLen(emb_result) = 1536

\* the backend answered the batch request and every single request with the
\* vectors it computed (it neither failed nor left the vectors out of a reply)
EmbBackendAnswered ==
    /\ emb_backend.outcome = "ok"
    /\ emb_backend.shape # "neither"

\* C10: for every non-empty batch and both backends, generate_embeddings_batch
\* returns exactly len(texts) vectors, and vector i is the backend's embedding
\* of texts[i], for every order in which the backend lists its results.
\* (The positions of empty texts are the subject of C24 and are left open.)
C10_BatchOrderPreserved ==
    (/\ emb_pc = "returned" /\ emb_op = "batch" /\ emb_texts # <<>>
     /\ emb_error = None /\ EmbBackendAnswered) =>
        /\ Len(emb_result) = Len(emb_texts)
        /\ \A i \in 1..Len(emb_texts) :
               CleanText(emb_texts[i]) # <<>> =>
                   emb_result[i] = BackendEmbedding(emb_backend, CleanText(emb_texts[i]))

\* the operations of the adapter that have run in this round
AdpRan(op) == adp_in # Absent /\ adp_out[op] # Absent

\* the provider a chat call is expected to use
ExpectedProvider(in) ==
    IF in.override \in Providers THEN in.override ELSE llm_get_provider(in.LLM_PROVIDER)

\* C11: chat and chat_stream use the override when one is supplied and the
\* configured LLM_PROVIDER otherwise, an unknown name (configured or override)
\* is handled as the default provider, and neither they nor the availability
\* check of the Q&A endpoint report an unknown provider.
C11_ProviderResolution ==
    /\ \A op \in {"chat", "chat_stream"} :
        AdpRan(op) =>
            /\ adp_out[op].via = ExpectedProvider(adp_in)
            /\ adp_out[op].emsg # "Unknown provider"
    /\ AdpRan("check_llm_available") =>
            /\ adp_out["check_llm_available"].via = llm_get_provider(adp_in.LLM_PROVIDER)
            /\ adp_out["check_llm_available"].emsg # "Unknown LLM provider"

\* the call reached the backend and the backend failed
BackendFailed(op) ==
    /\ AdpRan(op)
    /\ adp_out[op].via # None
    /\ KeyError(adp_out[op].via, adp_in.keys) = None
    /\ adp_in.backend.outcome # "ok"

\* C12: a refused connection to the ollama backend reaches the caller of chat
\* and chat_stream as a ConnectionError naming the base URL and 'ollama serve';
\* every other backend failure, of any provider, reaches the caller as the
\* upstream error itself.
C12_OllamaConnectionError ==
    \A op \in {"chat", "chat_stream"} :
        BackendFailed(op) =>
            IF adp_out[op].via = "ollama" /\ adp_in.backend.outcome = "refused"
            THEN /\ adp_out[op].etype = "ConnectionError"
                 /\ adp_out[op].emsg = OllamaUnavailable
            ELSE /\ adp_out[op].etype = UpstreamType(adp_in.backend)
                 /\ adp_out[op].emsg = adp_in.backend.message

HasProse(reply) == \E k \in 1..Len(reply) : reply[k] = Prose

\* C13: when the provider's reply, code fences stripped, is not JSON,
\* generate_slides returns the fixed deck of 2 slides and generate_script the
\* fixed dialogue of 5 lines titled 'Discussion of Your Sources'; neither raises.
C13_FallbackOnUnparseable ==
    (gen_in # Absent /\ HasProse(gen_in.reply)) =>
        /\ gen_in.op = "generate_slides" =>
            /\ gen_out.service = Ret(FallbackSlides)
            /\ Len(gen_out.service.value) = 2
            /\ gen_out.status = 200
        /\ gen_in.op = "generate_script" =>
            /\ gen_out.service = Ret(FallbackScript)
            /\ gen_out.service.value.title = "Discussion of Your Sources"
            /\ Len(gen_out.service.value.dialogue) = 5

\* a fenced reply whose body is prose was answered with the fallback deck
C13_Witness ==
    /\ gen_in # Absent
    /\ gen_in.op = "generate_slides"
    /\ gen_in.reply = <<Fence, JsonWord, Ws, Prose, Ws, Fence>>
    /\ gen_out.service.value = FallbackSlides

\* C14: whatever the provider replies, slide generation answers with a
\* non-empty list of slides that each have slide_type, title and content,
\* script generation returns a dialogue of at least one turn, and podcast
\* generation does not fail on account of the reply.
C14_AlwaysValidPayload ==
    gen_in # Absent =>
        /\ gen_in.op = "generate_slides" =>
            /\ gen_out.status = 200
            /\ Len(gen_out.slides) >= 1
            /\ \A k \in 1..Len(gen_out.slides) : ValidSlide(gen_out.slides[k])
        /\ gen_in.op = "generate_script" =>
            /\ gen_out.service.etype = None
            /\ gen_out.service.value.type = "object"
            /\ "dialogue" \in gen_out.service.value.keys
            /\ Len(gen_out.service.value.dialogue) >= 1
        /\ gen_in.op = "generate_podcast" => gen_out.status = 200

\* the sum of the durations the TTS collaborator returns for the turns
RECURSIVE SumTtsMs(_)
SumTtsMs(dialogue) ==
    IF dialogue = <<>> THEN 0 ELSE TtsMs(Head(dialogue).text) + SumTtsMs(Tail(dialogue))

IsSpeech(seg) == seg.kind = "speech"

\* C15: the audio of a podcast of n turns has one speech segment per turn, in
\* dialogue order, and lasts the sum of the turns' durations plus (n - 1) x 300 ms.
C15_PodcastDuration ==
    (gen_in # Absent /\ gen_in.op = "generate_podcast" /\ gen_out.status = 200) =>
        LET dialogue == gen_out.service.dialogue
            speech == SelectSeq(gen_out.service.value, IsSpeech)
        IN /\ Len(speech) = Len(dialogue)
           /\ \A k \in 1..Len(speech) : speech[k].text = dialogue[k].text
           /\ DurationMs(gen_out.service.value) = SumTtsMs(dialogue) + (Len(dialogue) - 1) * PauseMs

Min(a, b) == IF a < b THEN a ELSE b

\* C19: the message list Q&A hands to the provider is the context message,
\* then the last min(10, n) messages of the n-message history in their order,
\* then the question as a user message.
C19_HistoryTruncation ==
    qa_in # Absent =>
        LET n == Len(qa_in.history)
            k == Min(10, n)
        IN /\ Len(qa_messages) = k + 2
           /\ qa_messages[1] = ContextMessage(qa_in.context)
           /\ \A i \in 1..k : qa_messages[1 + i] = qa_in.history[n - k + i]
           /\ qa_messages[k + 2] = [role |-> "user", content |-> qa_in.question]

\* a history of 12 messages was cut to its last 10
C19_Witness ==
    /\ qa_in # Absent
    /\ Len(qa_in.history) = 12
    /\ Len(qa_messages) = 12
    /\ qa_messages[2].content = 3
    /\ qa_messages[11].content = 12

\* the status of source i in the table `docs`; idle before its request
StatusIn(docs, i) == IF docs[i] = Absent THEN "idle" ELSE docs[i].status

IsSourceIn(docs, i) == docs[i] # Absent /\ docs[i].kind # "note"

\* C17: the status of a source only moves idle -> loading -> (success | error):
\* it is loading before it is success or error, and success and error are final.
C17_SourceStatusMachine ==
    [][\A i \in IngestIds :
        (IsSourceIn(ing_docs', i) /\ StatusIn(ing_docs', i) # StatusIn(ing_docs, i)) =>
            \/ StatusIn(ing_docs, i) = "idle" /\ StatusIn(ing_docs', i) = "loading"
            \/ StatusIn(ing_docs, i) = "loading" /\ StatusIn(ing_docs', i) \in {"success", "error"}]_vars

\* document i has been created (or updated) and holds content
Ingested(i) ==
    /\ ing_docs[i] # Absent
    /\ ing_docs[i].pc = "done"
    /\ ing_docs[i].status # "error"

\* the active embedding provider is usable and its backend answers
EmbeddingUsable ==
    /\ ing_cfg.backend_up
    /\ (Lower(ing_cfg.LLM_PROVIDER) = "ollama" \/ ing_cfg.OPENAI_API_KEY)

\* C18: in every configuration whose active embedding provider is usable and
\* answers, a note or source that has been created or updated eventually has
\* an embedding.
C18_EventuallyEmbedded ==
    \A i \in IngestIds :
        (Ingested(i) /\ EmbeddingUsable) ~> (ing_docs[i] # Absent /\ ing_docs[i].embedding)

\* the messages that name the missing key or the command that starts the
\* local backend
Actionable ==
    {MissingKeyError("openai"), MissingKeyError("anthropic"),
     "OpenAI API key not configured", "Anthropic API key not configured",
     "Semantic search requires OpenAI API key to be configured",
     "AI chat requires OpenAI API key to be configured",
     "Ollama not available", OllamaUnavailable}

\* the chat provider lacks its key, or is the local one and cannot be reached
LlmUnavailable(in) ==
    LET provider == llm_get_provider(in.LLM_PROVIDER) IN
    \/ KeyError(provider, in.keys) # None
    \/ provider = "ollama" /\ in.backend.outcome = "refused"

\* the embedding provider lacks its key, or is the local one and cannot be reached
EmbeddingUnavailable(in) ==
    IF emb_get_provider(in) = "ollama"
    THEN in.backend.outcome = "refused"
    ELSE "openai" \notin in.keys

\* the operation needs something that is missing
Affected(op, in) ==
    CASE op = "chat" -> LlmUnavailable(in) \/ EmbeddingUnavailable(in)
      [] op \in GenerationKinds -> LlmUnavailable(in)
      [] OTHER -> EmbeddingUnavailable(in)

\* C20: when a required credential is missing or the local backend is
\* unreachable, the caller of an affected operation (Q&A, semantic search, a
\* write that needs an embedding, a generation) receives a failure whose
\* message names the missing key or the start command: the step is never
\* skipped silently and the message is never a generic one.
C20_FailureSurfaces ==
    (srf_resp # Absent /\ Affected(srf_resp.op, srf_in)) =>
        /\ srf_resp.status >= 400
        /\ (srf_resp.detail \in Actionable \/ srf_resp.cause \in Actionable)

\* the ollama batch reply was unusable and the texts were embedded one by one
EmbFellBack ==
    /\ EmbResolve(emb_override, emb_cfg) = "ollama"
    /\ Len(emb_calls) > 1

\* C24: in the result of generate_embeddings_batch every position whose text
\* is empty or whitespace-only holds the all-zero vector of the configured
\* dimension (1536), for both backends and on the sequential fallback too.
C24_BatchEmptyIsZero ==
    (emb_pc = "returned" /\ emb_op = "batch" /\ emb_error = None) =>
        \A i \in 1..Len(emb_texts) :
            Strip(emb_texts[i]) = <<>> =>
                /\ i <= Len(emb_result)
                /\ emb_result[i] = Vec(1536, 0)

\* the batch reply of the ollama backend is unusable: it holds no embeddings
\* or not as many as there are texts
OllamaBatchMismatch ==
    \/ emb_backend.shape # "embeddings"
    \/ emb_backend.count = 0
    \/ emb_backend.count # Len(emb_texts)

\* a batch operation on the ollama backend returned and the backend answered
OllamaBatchAnswered ==
    /\ emb_pc = "returned" /\ emb_op = "batch" /\ emb_texts # <<>>
    /\ EmbResolve(emb_override, emb_cfg) = "ollama"
    /\ emb_backend.outcome = "ok"

\* C25: when the ollama batch reply holds no embeddings or a number of them
\* other than len(texts), every text is embedded by exactly one single-text
\* request, in input order, and len(texts) vectors are returned; when the
\* count matches, no single-text request is made.
C25_SequentialFallback ==
    OllamaBatchAnswered =>
        IF OllamaBatchMismatch
        THEN /\ emb_error = None
             /\ Len(emb_result) = Len(emb_texts)
             /\ Len(emb_calls) = 1 + Len(emb_texts)
             /\ \A i \in 1..Len(emb_texts) :
                    emb_calls[i + 1] = [backend |-> "ollama", input |-> CleanText(emb_texts[i])]
        ELSE Len(emb_calls) = 1

C25_Witness ==
    /\ OllamaBatchAnswered
    /\ Len(emb_texts) = 2
    /\ emb_backend.shape = "embeddings"
    /\ emb_backend.count = 1
    /\ Len(emb_calls) = 3
    /\ Len(emb_result) = 2

\* the texts of the text-delta lines, in arrival order
RECURSIVE TextsOfLines(_)
TextsOfLines(lines) ==
    IF lines = <<>> THEN <<>>
    ELSE (IF Head(lines).kind = "text" THEN <<Head(lines).text>> ELSE <<>>)
         \o TextsOfLines(Tail(lines))

\* the lines received before the first `[DONE]` line
RECURSIVE BeforeDone(_)
BeforeDone(lines) ==
    IF lines = <<>> \/ Head(lines).kind = "done" THEN <<>>
    ELSE <<Head(lines)>> \o BeforeDone(Tail(lines))

\* C22: for the anthropic and google streams and every sequence of lines,
\* chat_stream yields exactly the texts of the well-formed text-delta events
\* in arrival order; no other line yields anything, ends or aborts the
\* stream, except that for anthropic nothing is yielded after `[DONE]`.
C22_StreamSkipsMalformed ==
    ln_in # Absent =>
        /\ ln_out.error = None
        /\ ln_out.fragments =
               TextsOfLines(IF ln_in.provider = "anthropic" THEN BeforeDone(ln_in.lines)
                                                            ELSE ln_in.lines)

\* C29: a chat or chat_stream call that reaches a backend issues exactly one
\* request, to the resolved provider: a failed request is not sent again and
\* no other provider is tried.
C29_SingleAttempt ==
    \A op \in {"chat", "chat_stream"} :
        (AdpRan(op) /\ RequestTarget(adp_in) # None) =>
            adp_requests[op] = <<ExpectedProvider(adp_in)>>

\* C27: under every configuration (active provider, keys set, Ollama
\* reachable or not) the streaming Q&A endpoint lets a request past its
\* availability test exactly when the non-streaming endpoint does.
C27_SameAvailabilityDecision ==
    (srf_gate["chat"] # Absent /\ srf_gate["chat_stream"] # Absent) =>
        srf_gate["chat"].passed = srf_gate["chat_stream"].passed

\* row i comes before row j in the ranking the claim describes
RanksBefore(i, j) ==
    \/ rk_rows[i].similarity > rk_rows[j].similarity
    \/ /\ rk_rows[i].similarity = rk_rows[j].similarity
       /\ rk_rows[i].updated_at > rk_rows[j].updated_at

\* C26: among retrieved rows of equal similarity the one updated most
\* recently comes first, in semantic search, similar-note search and Q&A
\* retrieval, so the rows kept by the limit are determined: no row left out
\* ranks before a row returned.
C26_TiesByRecency ==
    rk_query # Absent =>
        /\ \A a, b \in 1..Len(rk_result) :
               a < b => RanksBefore(rk_result[a], rk_result[b])
        /\ \A i \in RowIds :
               (\A a \in 1..Len(rk_result) : rk_result[a] # i) =>
                   \A a \in 1..Len(rk_result) : RanksBefore(rk_result[a], i)

\* every scheduled task has run to its end, and each stored its embedding
NeAllStored ==
    \A k \in TaskIds : ne_tasks[k] # Absent => ne_tasks[k].pc = "stored"

\* C21: under every interleaving of updates of a note and of the embedding
\* tasks they schedule, once all tasks have finished the stored embedding is
\* the one computed from the note's current title, tags and content.
C21_EmbeddingOfCurrentText ==
    (ne_note # Absent /\ NeAllStored) =>
        ne_note.embedding = EmbeddingOf(NoteText(ne_note))

\* task k ends in failure in this step: the note was gone when it looked for
\* it, or generate_embedding or the commit raised
NeTaskFails(k) ==
    /\ ne_tasks[k] # Absent
    /\ ne_tasks[k].pc \in {"scheduled", "embedding"}
    /\ ne_tasks'[k].pc \in {"not_found", "failed"}

\* C23: a background embedding task that fails leaves the document's title,
\* content and stored embedding as they were, does not re-create a deleted
\* document, only logs, and leaves the response of the request that
\* scheduled it as it was.
C23_FailedTaskChangesNothing ==
    [][\A k \in TaskIds :
          NeTaskFails(k) =>
              /\ ne_note' = ne_note
              /\ ne_last' = ne_last
              /\ ne_log' = ne_log + 1]_vars

C23_Witness ==
    /\ ne_note # Absent
    /\ ne_note.embedding = EmbeddingOf(<<"T">>)
    /\ ne_note.content = "c"
    /\ ne_tasks[1] # Absent
    /\ ne_tasks[1].pc = "failed"
    /\ ne_log = 1

\* C28: after any sequence and interleaving of admin update_user and
\* delete_user requests, an active superuser still exists.
C28_SuperuserRemains ==
    \E u \in AdminIds : get_current_active_superuser(adm_users, u)

\* The sources read back from a summary prompt: the text is cut at the
\* separators, and each part gives its number, its title and the content
\* that follows the line break.
SeparatorsIn(text) == {p \in 1..Len(text) : text[p] = ContextSeparator}

\* the position of the k-th of the separators seps of a text of length n;
\* 0 and n + 1 bound the text
SeparatorAt(seps, n, k) ==
    IF k = 0 THEN 0
    ELSE IF k > Cardinality(seps) THEN n + 1
    ELSE CHOOSE p \in seps : Cardinality({q \in seps : q < p}) = k - 1

PartsOfContext(text) ==
    LET seps == SeparatorsIn(text)
        n == Len(text) IN
    [k \in 1..(Cardinality(seps) + 1) |->
        SubSeq(text, SeparatorAt(seps, n, k - 1) + 1, SeparatorAt(seps, n, k) - 1)]

SourcesInPrompt(content) ==
    IF Len(content) = 1 THEN <<>>
    ELSE LET parts == PartsOfContext(Tail(content)) IN
         [i \in 1..Len(parts) |->
             [number  |-> parts[i][2],
              title   |-> parts[i][4],
              content |-> SubSeq(parts[i], 6, Len(parts[i]))]]

IsPrefixOf(p, t) == Len(p) <= Len(t) /\ p = SubSeq(t, 1, Len(p))

\* C30: both summary functions send one user message holding every supplied
\* source in the supplied order, each with its title and the first 8000
\* characters of its content (all of it when shorter), under the template
\* of the requested summary_type, or the comprehensive one for an unknown type.
C30_SummaryPrompt ==
    sm_req # Absent =>
        LET in == sm_in
            found == SourcesInPrompt(sm_req.messages[1].content) IN
        /\ Len(sm_req.messages) = 1
        /\ Len(found) = Len(in.sources)
        /\ \A i \in 1..Len(found) :
            /\ found[i].number = ToString(i)
            /\ found[i].title = in.sources[i].title
            /\ IsPrefixOf(found[i].content, in.sources[i].content)
            /\ Len(found[i].content) <= ContentLimit
            /\ Len(in.sources[i].content) <= ContentLimit
                   => found[i].content = in.sources[i].content
            /\ Len(in.sources[i].content) > ContentLimit
                   => Len(found[i].content) = ContentLimit
        /\ sm_req.system_prompt =
               (CASE in.summary_type = "key_points" -> SUMMARY_PROMPTS["key_points"]
                  [] in.summary_type = "brief" -> SUMMARY_PROMPTS["brief"]
                  [] OTHER -> SUMMARY_PROMPTS["comprehensive"])

\* a streamed summary of two sources, the second longer than the limit, asked
\* with an unknown summary_type, has been sent to the provider and answered
C30_Witness ==
    /\ sm_out # Absent
    /\ sm_in.function = "generate_summary_stream"
    /\ sm_in.summary_type = "other"
    /\ Len(sm_in.sources) = 2
    /\ Len(sm_in.sources[2].content) > ContentLimit
    /\ sm_in.sources[1].title # sm_in.sources[2].title

====
